---- MODULE Spec2Model ----
(***************************************************************************)
(* Model of the Dameng MCP database layer (src/database.py): the query     *)
(* result cache (QueryCache), the SQL security validator (SQLValidator)    *)
(* and the executor that combines them (DamengDatabase.execute_query).     *)
(*                                                                         *)
(* A text (Python str) is a sequence of one-character strings, so that     *)
(* upper(), strip(), split(), startswith(), the `in` substring test and    *)
(* re.search() are computed character by character, as Python does.        *)
(***************************************************************************)
EXTENDS Integers, Sequences, FiniteSets, TLC

VARIABLES
    cache,                 \* QueryCache.cache: insertion-ordered dict key -> entry
    access_times,          \* QueryCache.access_times: insertion-ordered dict key -> time
    max_size,              \* QueryCache.max_size
    ttl,                   \* QueryCache.ttl
    now,                   \* the clock read by time.time()
    security_mode,         \* config.security_mode of the DamengDatabase
    READONLY_OPERATIONS,   \* SQLValidator class attribute (a mutable Python set)
    WRITE_OPERATIONS,      \* SQLValidator class attribute (a mutable Python set)
    DANGEROUS_OPERATIONS,  \* SQLValidator class attribute (a mutable Python set)
    ret,                   \* the last call made and what it returned or raised
    heap,                  \* the list objects callers hold: address -> contents
    touched,               \* the sets and hits a caller noted, in the order it made them
    allowed_schemas,       \* config.allowed_schemas of the DamengDatabase
    raised,                \* the exceptions raised inside the last operation, in order
    threads,               \* each caller's position inside the cache method it runs
    overlapped             \* two callers have been inside the cache at once

vars == <<cache, access_times, max_size, ttl, now, security_mode,
          READONLY_OPERATIONS, WRITE_OPERATIONS, DANGEROUS_OPERATIONS, ret,
          heap, touched, allowed_schemas, raised, threads, overlapped>>

cacheVars == <<cache, access_times, max_size, ttl>>

validatorVars == <<READONLY_OPERATIONS, WRITE_OPERATIONS, DANGEROUS_OPERATIONS>>

\* what only the alias, the eviction, the operation and the interleaving
\* specifications use
callerVars == <<heap, touched, allowed_schemas, raised, threads, overlapped>>

-----------------------------------------------------------------------------
(* Bounds of the model.                                                    *)

MaxCapacity == 2

MaxTtl == 1

MaxTime == 2

MaxWords == 3

-----------------------------------------------------------------------------
(* Python str operations.                                                  *)

LowerLetters == <<"a","b","c","d","e","f","g","h","i","j","k","l","m","n","o","p","q","r","s","t","u","v","w","x","y","z">>

UpperLetters == <<"A","B","C","D","E","F","G","H","I","J","K","L","M","N","O","P","Q","R","S","T","U","V","W","X","Y","Z">>

Digits == <<"0","1","2","3","4","5","6","7","8","9">>

Range(s) == {s[i] : i \in DOMAIN s}

\* characters str.strip(), str.split() and the regex class \s treat as blank
Whitespace == {" ", "\t", "\n"}

\* U+212A KELVIN SIGN: an upper-case letter, not "K", whose lower case is "k"
KelvinSign == "KELVIN SIGN"

\* characters of the regex class \w
WordChars ==
    Range(LowerLetters) \cup Range(UpperLetters) \cup Range(Digits)
        \cup {"_", KelvinSign}

SetMin(S) == CHOOSE m \in S : \A n \in S : m <= n

\* the upper-case letter of each lower-case letter
LowerSet == Range(LowerLetters)

UpperOf ==
    [c \in LowerSet |->
        UpperLetters[CHOOSE i \in DOMAIN LowerLetters : LowerLetters[i] = c]]

UpperChar(c) == IF c \in LowerSet THEN UpperOf[c] ELSE c

\* str.upper()
upper(text) == [i \in DOMAIN text |-> UpperChar(text[i])]

UpperSet == Range(UpperLetters)

LowerOf ==
    [c \in UpperSet |->
        LowerLetters[CHOOSE i \in DOMAIN UpperLetters : UpperLetters[i] = c]]

LowerChar(c) ==
    IF c = KelvinSign THEN "k" ELSE IF c \in UpperSet THEN LowerOf[c] ELSE c

\* str.lower()
lower(text) == [i \in DOMAIN text |-> LowerChar(text[i])]

RECURSIVE lstrip(_)
lstrip(text) ==
    IF text # <<>> /\ Head(text) \in Whitespace THEN lstrip(Tail(text)) ELSE text

RECURSIVE rstrip(_)
rstrip(text) ==
    IF text # <<>> /\ text[Len(text)] \in Whitespace
    THEN rstrip(SubSeq(text, 1, Len(text) - 1)) ELSE text

\* str.strip(): the blanks at both ends are dropped
strip(text) == rstrip(lstrip(text))

\* str.split(): the maximal runs of non-blank characters, in order
RECURSIVE split(_)
split(text) ==
    LET solid == {i \in DOMAIN text : text[i] \notin Whitespace}
    IN  IF solid = {} THEN <<>>
        ELSE LET first == SetMin(solid)
                 blanks == {i \in first..Len(text) : text[i] \in Whitespace}
                 stop == IF blanks = {} THEN Len(text) + 1 ELSE SetMin(blanks)
             IN  <<SubSeq(text, first, stop - 1)>>
                     \o split(SubSeq(text, stop, Len(text)))

\* text[pos:pos+len(word)] == word
HasAt(text, word, pos) ==
    /\ pos >= 1
    /\ pos + Len(word) - 1 <= Len(text)
    /\ \A i \in DOMAIN word : text[pos + i - 1] = word[i]

\* word in text (substring test)
Contains(text, word) == \E pos \in 1..(Len(text) + 1) : HasAt(text, word, pos)

\* text.startswith(prefixes), prefixes a tuple of texts
startswith(text, prefixes) == \E p \in Range(prefixes) : HasAt(text, p, 1)

-----------------------------------------------------------------------------
(* re.search() for the patterns _validate_readonly uses: a pattern is a    *)
(* sequence of elements \b, \s+, \w+ and literal words.                    *)

B == [kind |-> "b", lit |-> <<>>]

S1 == [kind |-> "s+", lit |-> <<>>]

W1 == [kind |-> "w+", lit |-> <<>>]

Lit(word) == [kind |-> "lit", lit |-> word]

IsWordAt(text, i) == i \in DOMAIN text /\ text[i] \in WordChars

\* \b matches between text[pos-1] and text[pos]
Boundary(text, pos) == IsWordAt(text, pos - 1) # IsWordAt(text, pos)

\* the run text[pos..q-1] is non-empty and made of chars of class
RunEnds(text, pos, class) ==
    {q \in (pos + 1)..(Len(text) + 1) : \A r \in pos..(q - 1) : text[r] \in class}

\* the positions where a match of pattern[k..] that starts at pos can end
RECURSIVE MatchEnds(_, _, _, _)
MatchEnds(text, pattern, k, pos) ==
    IF k > Len(pattern) THEN {pos}
    ELSE LET e == pattern[k]
         IN  CASE e.kind = "b" ->
                    IF Boundary(text, pos)
                    THEN MatchEnds(text, pattern, k + 1, pos) ELSE {}
               [] e.kind = "lit" ->
                    IF HasAt(text, e.lit, pos)
                    THEN MatchEnds(text, pattern, k + 1, pos + Len(e.lit)) ELSE {}
               [] e.kind = "s+" ->
                    UNION {MatchEnds(text, pattern, k + 1, q) :
                               q \in RunEnds(text, pos, Whitespace)}
               [] e.kind = "w+" ->
                    UNION {MatchEnds(text, pattern, k + 1, q) :
                               q \in RunEnds(text, pos, WordChars)}

\* re.search(pattern, text) is not None
re_search(pattern, text) ==
    \E pos \in 1..(Len(text) + 1) : MatchEnds(text, pattern, 1, pos) # {}

-----------------------------------------------------------------------------
(* config.SecurityMode and the SQLValidator keyword sets.                  *)

READONLY == "readonly"

LIMITED_WRITE == "limited_write"

FULL_ACCESS == "full_access"

SecurityMode == {READONLY, LIMITED_WRITE, FULL_ACCESS}

K_SELECT == <<"S","E","L","E","C","T">>

K_WITH == <<"W","I","T","H">>

K_SHOW == <<"S","H","O","W">>

K_DESCRIBE == <<"D","E","S","C","R","I","B","E">>

K_EXPLAIN == <<"E","X","P","L","A","I","N">>

K_ANALYZE == <<"A","N","A","L","Y","Z","E">>

K_INSERT == <<"I","N","S","E","R","T">>

K_UPDATE == <<"U","P","D","A","T","E">>

K_DELETE == <<"D","E","L","E","T","E">>

K_DROP == <<"D","R","O","P">>

K_CREATE == <<"C","R","E","A","T","E">>

K_ALTER == <<"A","L","T","E","R">>

K_TRUNCATE == <<"T","R","U","N","C","A","T","E">>

K_GRANT == <<"G","R","A","N","T">>

K_REVOKE == <<"R","E","V","O","K","E">>

K_TABLE == <<"T","A","B","L","E">>

K_FROM == <<"F","R","O","M">>

K_INTO == <<"I","N","T","O">>

K_SET == <<"S","E","T">>

\* the values the class attributes are given when the class is created
ReadSet == {K_SELECT, K_WITH, K_SHOW, K_DESCRIBE, K_EXPLAIN, K_ANALYZE}

WriteSet == {K_INSERT, K_UPDATE}

DangerousSet == {K_DELETE, K_DROP, K_CREATE, K_ALTER, K_TRUNCATE, K_GRANT, K_REVOKE}

\* the list dangerous_patterns of _validate_readonly
dangerous_patterns == <<
    <<B, Lit(K_DROP), S1, Lit(K_TABLE), B>>,
    <<B, Lit(K_TRUNCATE), S1, Lit(K_TABLE), B>>,
    <<B, Lit(K_DELETE), S1, Lit(K_FROM), B>>,
    <<B, Lit(K_INSERT), S1, Lit(K_INTO), B>>,
    <<B, Lit(K_UPDATE), S1, W1, S1, Lit(K_SET), B>>,
    <<B, Lit(K_CREATE), S1, Lit(K_TABLE), B>>,
    <<B, Lit(K_ALTER), S1, Lit(K_TABLE), B>> >>

-----------------------------------------------------------------------------
(* SQLValidator.  Its three keyword sets are class attributes, mutable     *)
(* Python sets that the methods read: v is the record of their values.     *)

\* the class as its definition leaves it
SQLValidator ==
    [READONLY_OPERATIONS |-> ReadSet, WRITE_OPERATIONS |-> WriteSet,
     DANGEROUS_OPERATIONS |-> DangerousSet]

_extract_first_keyword(sql_upper) ==
    LET words == split(sql_upper)
    IN  IF words # <<>> THEN words[1] ELSE <<>>

\* as _validate_readonly, the other read keywords checked against the
\* dangerous set alone
_validate_readonly_dangerous_only(v, first_keyword, sql_upper) ==
    IF first_keyword \notin v.READONLY_OPERATIONS THEN FALSE
    ELSE IF first_keyword = K_SELECT
         THEN ~ \E i \in DOMAIN dangerous_patterns :
                    re_search(dangerous_patterns[i], sql_upper)
         ELSE ~ \E forbidden \in v.DANGEROUS_OPERATIONS :
                    Contains(sql_upper, forbidden)

\* as _validate_readonly, without the test of the first keyword
_validate_readonly_any_keyword(v, first_keyword, sql_upper) ==
    IF first_keyword = K_SELECT
    THEN ~ \E i \in DOMAIN dangerous_patterns :
               re_search(dangerous_patterns[i], sql_upper)
    ELSE ~ \E forbidden \in v.WRITE_OPERATIONS \cup v.DANGEROUS_OPERATIONS :
               Contains(sql_upper, forbidden)

_validate_readonly(v, first_keyword, sql_upper) ==
    IF first_keyword \notin v.READONLY_OPERATIONS THEN FALSE
    ELSE IF first_keyword = K_SELECT
         THEN ~ \E i \in DOMAIN dangerous_patterns :
                    re_search(dangerous_patterns[i], sql_upper)
         ELSE LET forbidden_in_readonly ==
                      v.WRITE_OPERATIONS \cup v.DANGEROUS_OPERATIONS
              IN  ~ \E forbidden \in forbidden_in_readonly :
                        Contains(sql_upper, forbidden)

\* as _validate_limited_write, a dangerous keyword looked for as the first
\* keyword only
_validate_limited_write_first_only(v, first_keyword, sql_upper) ==
    LET allowed_operations == v.READONLY_OPERATIONS \cup v.WRITE_OPERATIONS
    IN  IF first_keyword \notin allowed_operations THEN FALSE
        ELSE first_keyword \notin v.DANGEROUS_OPERATIONS

\* as _validate_limited_write, without the test of the first keyword
_validate_limited_write_any_keyword(v, first_keyword, sql_upper) ==
    ~ \E dangerous \in v.DANGEROUS_OPERATIONS : Contains(sql_upper, dangerous)

_validate_limited_write(v, first_keyword, sql_upper) ==
    LET allowed_operations == v.READONLY_OPERATIONS \cup v.WRITE_OPERATIONS
    IN  IF first_keyword \notin allowed_operations THEN FALSE
        ELSE ~ \E dangerous \in v.DANGEROUS_OPERATIONS :
                   Contains(sql_upper, dangerous)

\* as validate_sql, full access held to the limited-write rules
validate_sql_full_as_limited(v, sql, mode) ==
    LET sql_upper == strip(upper(sql))
        first_keyword == _extract_first_keyword(sql_upper)
    IN  IF mode = READONLY THEN _validate_readonly(v, first_keyword, sql_upper)
        ELSE _validate_limited_write(v, first_keyword, sql_upper)

\* as validate_sql, the text compared as written
validate_sql_case_sensitive(v, sql, mode) ==
    LET sql_upper == strip(sql)
        first_keyword == _extract_first_keyword(sql_upper)
    IN  IF mode = READONLY THEN _validate_readonly(v, first_keyword, sql_upper)
        ELSE IF mode = LIMITED_WRITE
             THEN _validate_limited_write(v, first_keyword, sql_upper)
        ELSE IF mode = FULL_ACCESS THEN TRUE
        ELSE FALSE

validate_sql(v, sql, mode) ==
    LET sql_upper == strip(upper(sql))
        first_keyword == _extract_first_keyword(sql_upper)
    IN  IF mode = READONLY THEN _validate_readonly(v, first_keyword, sql_upper)
        ELSE IF mode = LIMITED_WRITE
             THEN _validate_limited_write(v, first_keyword, sql_upper)
        ELSE IF mode = FULL_ACCESS THEN TRUE
        ELSE FALSE

-----------------------------------------------------------------------------
(* Python values: None / a value, and the insertion-ordered dict.          *)

None == <<>>

Some(x) == <<x>>

\* a dict is the sequence of its <<key, value>> items in insertion order
EmptyDict == <<>>

DictKeys(d) == {d[i][1] : i \in DOMAIN d}

DictHas(d, k) == \E i \in DOMAIN d : d[i][1] = k

DictGet(d, k) == d[CHOOSE i \in DOMAIN d : d[i][1] = k][2]

\* d[k] = v: an existing key keeps its place, a new key goes last
DictPut(d, k, v) ==
    IF DictHas(d, k)
    THEN [i \in DOMAIN d |-> IF d[i][1] = k THEN <<k, v>> ELSE d[i]]
    ELSE Append(d, <<k, v>>)

IsNotKey(item, k) == item[1] # k

\* del d[k]
DictDel(d, k) == SelectSeq(d, LAMBDA item : IsNotKey(item, k))

-----------------------------------------------------------------------------
(* QueryCache.  An object q is the record of its four attributes; every    *)
(* method is the function from the object (and the clock) to the object    *)
(* it leaves and the value it returns.  A call reads the clock once.       *)

\* the constructor's defaults
DEFAULT_MAX_SIZE == 100

DEFAULT_TTL == 300

QueryCache(a_max_size, a_ttl) ==
    [cache |-> EmptyDict, max_size |-> a_max_size, ttl |-> a_ttl,
     access_times |-> EmptyDict]

\* the hash is taken to be injective on the key data
_generate_key(sql, schema) ==
    sql \o <<"_">> \o (IF schema = None THEN <<>> ELSE schema[1])

_remove_keeps_access_time(q, key) ==
    [q EXCEPT !.cache = IF DictHas(@, key) THEN DictDel(@, key) ELSE @]

_remove(q, key) ==
    [q EXCEPT !.cache = IF DictHas(@, key) THEN DictDel(@, key) ELSE @,
              !.access_times = IF DictHas(@, key) THEN DictDel(@, key) ELSE @]

\* as oldest_key, the last of the keys whose access time is the least
oldest_key_last_tied(q) ==
    LET at == q.access_times
        i == CHOOSE i \in DOMAIN at :
                 /\ \A j \in DOMAIN at : at[i][2] <= at[j][2]
                 /\ \A j \in (i + 1)..Len(at) : at[j][2] # at[i][2]
    IN  at[i][1]

\* min(access_times.keys(), key=...): the first key, in iteration order,
\* whose access time is the least
oldest_key(q) ==
    LET at == q.access_times
        i == CHOOSE i \in DOMAIN at :
                 /\ \A j \in DOMAIN at : at[i][2] <= at[j][2]
                 /\ \A j \in 1..(i - 1) : at[j][2] # at[i][2]
    IN  at[i][1]

_evict_oldest(q) ==
    IF q.access_times = EmptyDict THEN q
    ELSE _remove(q, oldest_key(q))

\* as get, with an entry taken for expired once ttl has passed
get_expired_at_ttl(q, sql, schema, time) ==
    LET key == _generate_key(sql, schema)
    IN  IF ~ DictHas(q.cache, key)
        THEN [q |-> q, value |-> None]
        ELSE IF time - DictGet(q.cache, key).timestamp >= q.ttl
        THEN [q |-> _remove(q, key), value |-> None]
        ELSE [q |-> [q EXCEPT !.access_times = DictPut(@, key, time)],
              value |-> Some(DictGet(q.cache, key).data)]

\* as get, a hit leaving the access time as it was
get_keeps_access_time(q, sql, schema, time) ==
    LET key == _generate_key(sql, schema)
    IN  IF ~ DictHas(q.cache, key)
        THEN [q |-> q, value |-> None]
        ELSE IF time - DictGet(q.cache, key).timestamp > q.ttl
        THEN [q |-> _remove(q, key), value |-> None]
        ELSE [q |-> q, value |-> Some(DictGet(q.cache, key).data)]

\* as get, with every expired entry removed on the way
get_purging_expired(q, sql, schema, time) ==
    LET key == _generate_key(sql, schema)
        fresh(item) == time - item[2].timestamp <= q.ttl
        kept(item) == DictHas(SelectSeq(q.cache, fresh), item[1])
        purged == [q EXCEPT !.cache = SelectSeq(@, fresh),
                            !.access_times = SelectSeq(@, kept)]
    IN  IF ~ DictHas(purged.cache, key)
        THEN [q |-> purged, value |-> None]
        ELSE [q |-> [purged EXCEPT !.access_times = DictPut(@, key, time)],
              value |-> Some(DictGet(q.cache, key).data)]

\* get: the object afterwards and the value returned
get(q, sql, schema, time) ==
    LET key == _generate_key(sql, schema)
    IN  IF ~ DictHas(q.cache, key)
        THEN [q |-> q, value |-> None]
        ELSE IF time - DictGet(q.cache, key).timestamp > q.ttl
        THEN [q |-> _remove(q, key), value |-> None]
        ELSE [q |-> [q EXCEPT !.access_times = DictPut(@, key, time)],
              value |-> Some(DictGet(q.cache, key).data)]

\* as set, a key already cached keeping the data it has
set_keeps_cached_data(q, sql, data, schema, time) ==
    LET key == _generate_key(sql, schema)
        q1 == IF Len(q.cache) >= q.max_size THEN _evict_oldest(q) ELSE q
        kept == IF DictHas(q.cache, key) THEN DictGet(q.cache, key).data ELSE data
        entry == [data |-> kept, timestamp |-> time, sql |-> sql, schema |-> schema]
    IN  [q1 EXCEPT !.cache = DictPut(@, key, entry),
                   !.access_times = DictPut(@, key, time)]

set(q, sql, data, schema, time) ==
    LET key == _generate_key(sql, schema)
        q1 == IF Len(q.cache) >= q.max_size THEN _evict_oldest(q) ELSE q
        entry == [data |-> data, timestamp |-> time, sql |-> sql, schema |-> schema]
    IN  [q1 EXCEPT !.cache = DictPut(@, key, entry),
                   !.access_times = DictPut(@, key, time)]

\* as clear, the access times left behind
clear_keeps_access_times(q) == [q EXCEPT !.cache = EmptyDict]

clear(q) == [q EXCEPT !.cache = EmptyDict, !.access_times = EmptyDict]

get_stats(q) ==
    [cache_size |-> Len(q.cache), max_size |-> q.max_size, ttl |-> q.ttl,
     entries |-> [i \in DOMAIN q.cache |-> q.cache[i][1]]]

-----------------------------------------------------------------------------
(* The inputs the calls are driven with.                                   *)

SelectOne == <<"S","E","L","E","C","T"," ","1">>

SelectOneLower == <<" ","s","e","l","e","c","t"," ","1">>

DropTable == <<"D","R","O","P"," ","T","A","B","L","E"," ","T">>

SelectThenDrop == <<"S","E","L","E","C","T"," ","1",";"," ","D","R","O","P"," ","T","A","B","L","E"," ","T">>

\* the statements the cache and the executor are driven with
Sqls == {SelectOne, DropTable, SelectThenDrop}

Schemas == {None, Some(<<"S">>)}

Payloads == {<<>>, <<"row">>}

Params == {None}

\* the statements and namespaces the cache is driven with directly
CacheSqls == {SelectOne, SelectOneLower}

Latencies == {0, 1}

DbAnswer(status, rows, latency) ==
    [status |-> status, rows |-> rows, latency |-> latency]

\* what the database may answer: rows, or an error raised on connecting or
\* on executing
DbAnswers ==
    {DbAnswer("ok", rows, latency) : rows \in Payloads, latency \in Latencies}
        \cup {DbAnswer("connect_error", <<>>, 0)}
        \cup {DbAnswer("execute_error", <<>>, latency) : latency \in Latencies}

-----------------------------------------------------------------------------
(* DamengDatabase: execute_query and execute_safe_query.  The database is  *)
(* the environment: a call to it is answered by db, which fails to         *)
(* connect, fails to execute, or returns rows after some latency.          *)

\* config.DEFAULT_MAX_RESULT_ROWS
max_result_rows == 1000

\* the prefixes execute_query takes for a query whose rows are fetched
query_prefixes == <<K_SELECT, K_WITH, K_SHOW, K_DESCRIBE, K_EXPLAIN>>

\* as is_query, every statement taken for a query
is_query_any_statement(sql) == startswith(strip(upper(sql)), <<<<>>>>)

is_query(sql) == startswith(strip(upper(sql)), query_prefixes)

affected_rows == <<"affected_rows">>

Outcome(q, out, value, db_called, time) ==
    [q |-> q, out |-> out, value |-> value, db |-> db_called, time |-> time]

\* as execute_checked, with an empty result cached when the execution fails
execute_checked_caching_failure(q, sql, params, use_cache, db, time) ==
    LET query == is_query(sql)
        lookup == use_cache /\ query
        got == get(q, sql, None, time)
        q1 == IF lookup THEN got.q ELSE q
        done == time + db.latency
        result_dicts == IF Len(db.rows) > max_result_rows
                        THEN SubSeq(db.rows, 1, max_result_rows) ELSE db.rows
    IN  IF lookup /\ got.value # None
        THEN Outcome(got.q, "return", got.value, FALSE, time)
        ELSE IF db.status = "connect_error"
        THEN Outcome(q1, "dmPython.Error", None, FALSE, time)
        ELSE IF db.status = "execute_error"
        THEN Outcome(IF lookup THEN set(q1, sql, <<>>, None, done) ELSE q1,
                     "dmPython.Error", None, TRUE, done)
        ELSE IF query
        THEN Outcome(IF use_cache THEN set(q1, sql, result_dicts, None, done) ELSE q1,
                     "return", Some(result_dicts), TRUE, done)
        ELSE Outcome(q1, "return", Some(affected_rows), TRUE, done)

\* the part of execute_query after the security check
execute_checked(q, sql, params, use_cache, db, time) ==
    LET query == is_query(sql)
        lookup == use_cache /\ query
        got == get(q, sql, None, time)
        q1 == IF lookup THEN got.q ELSE q
        done == time + db.latency
        result_dicts == IF Len(db.rows) > max_result_rows
                        THEN SubSeq(db.rows, 1, max_result_rows) ELSE db.rows
    IN  IF lookup /\ got.value # None
        THEN Outcome(got.q, "return", got.value, FALSE, time)
        ELSE IF db.status = "connect_error"
        THEN Outcome(q1, "dmPython.Error", None, FALSE, time)
        ELSE IF db.status = "execute_error"
        THEN Outcome(q1, "dmPython.Error", None, TRUE, done)
        ELSE IF query
        THEN Outcome(IF use_cache THEN set(q1, sql, result_dicts, None, done) ELSE q1,
                     "return", Some(result_dicts), TRUE, done)
        ELSE Outcome(q1, "return", Some(affected_rows), TRUE, done)

execute_unchecked(q, v, mode, sql, params, use_cache, db, time) ==
    execute_checked(q, sql, params, use_cache, db, time)

execute_query(q, v, mode, sql, params, use_cache, db, time) ==
    IF ~ validate_sql(v, sql, mode)
    THEN Outcome(q, "ValueError", None, FALSE, time)
    ELSE execute_checked(q, sql, params, use_cache, db, time)

execute_safe_query(q, v, mode, sql, params, db, time) ==
    IF ~ validate_sql(v, sql, READONLY)
    THEN Outcome(q, "ValueError", None, FALSE, time)
    ELSE execute_query(q, v, mode, sql, params, TRUE, db, time)

-----------------------------------------------------------------------------
(* The state machine.                                                      *)

Self == [cache |-> cache, max_size |-> max_size, ttl |-> ttl,
         access_times |-> access_times]

Validator ==
    [READONLY_OPERATIONS |-> READONLY_OPERATIONS,
     WRITE_OPERATIONS |-> WRITE_OPERATIONS,
     DANGEROUS_OPERATIONS |-> DANGEROUS_OPERATIONS]

NoStats == [cache_size |-> 0, max_size |-> 0, ttl |-> 0, entries |-> <<>>]

Ret(op, sql, schema, mode, out, value, db_called, stats) ==
    [op |-> op, sql |-> sql, schema |-> schema, mode |-> mode, out |-> out,
     value |-> value, db |-> db_called, stats |-> stats]

NoCall == Ret("init", <<>>, None, READONLY, "return", None, FALSE, NoStats)

Becomes(q) ==
    /\ cache' = q.cache
    /\ access_times' = q.access_times
    /\ max_size' = q.max_size
    /\ ttl' = q.ttl

\* the callers of the cache
Threads == {1, 2}

\* a caller outside the cache, having called nothing yet
Idle ==
    [op |-> "idle", at |-> "idle", sql |-> <<>>, data |-> None, key |-> <<>>,
     target |-> <<>>, size |-> 0, out |-> "return", value |-> None]

\* config.DEFAULT_ALLOWED_SCHEMAS
Star == <<"*">>

Auto == <<"a","u","t","o">>

DEFAULT_ALLOWED_SCHEMAS == {Star}

\* the state once QueryCache(a_max_size, a_ttl) and the validator class exist
Constructed(a_max_size, a_ttl, a_mode) ==
    /\ cache = QueryCache(a_max_size, a_ttl).cache
    /\ access_times = QueryCache(a_max_size, a_ttl).access_times
    /\ max_size = QueryCache(a_max_size, a_ttl).max_size
    /\ ttl = QueryCache(a_max_size, a_ttl).ttl
    /\ now = 0
    /\ security_mode = a_mode
    /\ READONLY_OPERATIONS = SQLValidator.READONLY_OPERATIONS
    /\ WRITE_OPERATIONS = SQLValidator.WRITE_OPERATIONS
    /\ DANGEROUS_OPERATIONS = SQLValidator.DANGEROUS_OPERATIONS
    /\ heap = <<>>
    /\ touched = <<>>
    /\ allowed_schemas = DEFAULT_ALLOWED_SCHEMAS
    /\ raised = <<>>
    /\ threads = [t \in Threads |-> Idle]
    /\ overlapped = FALSE

Get(sql, schema) ==
    \E r \in {get(Self, sql, schema, now)} :
        /\ Becomes(r.q)
        /\ ret' = Ret("get", sql, schema, security_mode,
                      IF r.value = None THEN "None" ELSE "data", r.value,
                      FALSE, NoStats)
        /\ UNCHANGED <<now, security_mode, validatorVars, callerVars>>

Set(sql, data, schema) ==
    /\ \E q \in {set(Self, sql, data, schema, now)} : Becomes(q)
    /\ ret' = Ret("set", sql, schema, security_mode, "return", Some(data),
                  FALSE, NoStats)
    /\ UNCHANGED <<now, security_mode, validatorVars, callerVars>>

Clear ==
    /\ Becomes(clear(Self))
    /\ ret' = Ret("clear", <<>>, None, security_mode, "return", None, FALSE, NoStats)
    /\ UNCHANGED <<now, security_mode, validatorVars, callerVars>>

\* as GetStats, with the entries older than ttl dropped before counting
GetStatsPurging ==
    \E q \in {[Self EXCEPT
                 !.cache = SelectSeq(@, LAMBDA item : now - item[2].timestamp <= ttl)]} :
        /\ Becomes(q)
        /\ ret' = Ret("get_stats", <<>>, None, security_mode, "return", None, FALSE,
                      get_stats(q))
        /\ UNCHANGED <<now, security_mode, validatorVars, callerVars>>

GetStats ==
    /\ ret' = Ret("get_stats", <<>>, None, security_mode, "return", None, FALSE,
                  get_stats(Self))
    /\ UNCHANGED <<cacheVars, now, security_mode, validatorVars, callerVars>>

\* time passes between two calls
Tick ==
    /\ now < MaxTime
    /\ now' = now + 1
    /\ UNCHANGED <<cacheVars, security_mode, validatorVars, ret, callerVars>>

\* as ValidateSql, with the union of line 185 done in place on the class's set
ValidateSqlUpdatingClass(sql, mode) ==
    /\ ret' = Ret("validate_sql", sql, None, mode,
                  IF validate_sql(Validator, sql, mode) THEN "True" ELSE "False", None,
                  FALSE, NoStats)
    /\ READONLY_OPERATIONS' =
           IF mode = LIMITED_WRITE
           THEN READONLY_OPERATIONS \cup WRITE_OPERATIONS ELSE READONLY_OPERATIONS
    /\ UNCHANGED <<cacheVars, now, security_mode, WRITE_OPERATIONS,
                   DANGEROUS_OPERATIONS, callerVars>>

ValidateSql(sql, mode) ==
    /\ ret' = Ret("validate_sql", sql, None, mode,
                  IF validate_sql(Validator, sql, mode) THEN "True" ELSE "False", None,
                  FALSE, NoStats)
    /\ UNCHANGED <<cacheVars, now, security_mode, validatorVars, callerVars>>

ExecuteQuery(sql, params, use_cache, db) ==
    \E r \in {execute_query(Self, Validator, security_mode, sql, params,
                              use_cache, db, now)} :
        /\ r.time <= MaxTime
        /\ Becomes(r.q)
        /\ now' = r.time
        /\ ret' = Ret("execute_query", sql, None, security_mode, r.out, r.value,
                      r.db, NoStats)
        /\ UNCHANGED <<security_mode, validatorVars, callerVars>>

ExecuteSafeQuery(sql, params, db) ==
    \E r \in {execute_safe_query(Self, Validator, security_mode, sql, params,
                                   db, now)} :
        /\ r.time <= MaxTime
        /\ Becomes(r.q)
        /\ now' = r.time
        /\ ret' = Ret("execute_safe_query", sql, None, security_mode, r.out,
                      r.value, r.db, NoStats)
        /\ UNCHANGED <<security_mode, validatorVars, callerVars>>

Init ==
    \E a_max_size \in 0..MaxCapacity, a_ttl \in 0..MaxTtl :
        /\ Constructed(a_max_size, a_ttl, READONLY)
        /\ ret = NoCall

\* a QueryCache and its caller
Next ==
    \/ \E sql \in CacheSqls, schema \in Schemas : Get(sql, schema)
    \/ \E sql \in CacheSqls, data \in Payloads, schema \in Schemas :
           Set(sql, data, schema)
    \/ Clear
    \/ GetStats
    \/ Tick

Spec == Init /\ [][Next]_vars

\* DamengDatabase.__init__: the cache is built with the configured size and
\* lifetime, here the largest the model explores
InitDb ==
    \E a_mode \in SecurityMode :
        /\ Constructed(MaxCapacity, MaxTtl, a_mode)
        /\ ret = NoCall

\* a DamengDatabase and its caller (clear_cache and get_cache_info are the
\* cache's clear and get_stats)
NextDb ==
    \/ \E sql \in Sqls, params \in Params, use_cache \in BOOLEAN, db \in DbAnswers :
           ExecuteQuery(sql, params, use_cache, db)
    \/ \E sql \in Sqls, params \in Params, db \in DbAnswers :
           ExecuteSafeQuery(sql, params, db)
    \/ \E sql \in Sqls, mode \in SecurityMode : ValidateSql(sql, mode)
    \/ Clear
    \/ GetStats
    \/ Tick

SpecDb == InitDb /\ [][NextDb]_vars

-----------------------------------------------------------------------------
(* The validator alone: validate_sql called on statement texts.            *)

SelectStarFromT == <<"S","E","L","E","C","T"," ","*"," ","F","R","O","M"," ","T">>

SelectStarFromTLower == <<"s","e","l","e","c","t"," ","*"," ","f","r","o","m"," ","t">>

SelectStarFromTPadded == <<" "," ","S","E","L","E","C","T"," ","*"," ","F","R","O","M"," ","T"," ","\n">>

SelectMultiline == <<"S","E","L","E","C","T","\n","*","\n","F","R","O","M","\t","T">>

DeleteFromT == <<"D","E","L","E","T","E"," ","F","R","O","M"," ","T">>

DropTableT == <<"D","R","O","P"," ","T","A","B","L","E"," ","T">>

SelectThenDropTable == <<"S","E","L","E","C","T"," ","*"," ","F","R","O","M"," ","T",";"," ","D","R","O","P"," ","T","A","B","L","E"," ","T">>

SelectThenDropLower == <<"s","e","l","e","c","t"," ","*"," ","f","r","o","m"," ","t",";"," ","d","r","o","p"," "," ","t","a","b","l","e"," ","t">>

SelectThenDropTables == <<"S","E","L","E","C","T"," ","1",";"," ","D","R","O","P"," ","T","A","B","L","E","S">>

SelectThenDropIndex == <<"S","E","L","E","C","T"," ","1",";"," ","D","R","O","P"," ","I","N","D","E","X"," ","I">>

SelectThenTruncate == <<"S","E","L","E","C","T"," ","1",";"," ","T","R","U","N","C","A","T","E"," ","T","A","B","L","E"," ","T">>

SelectThenDelete == <<"S","E","L","E","C","T"," ","1",";"," ","D","E","L","E","T","E","\n","F","R","O","M"," ","T">>

SelectThenInsert == <<"S","E","L","E","C","T"," ","1",";"," ","I","N","S","E","R","T"," ","I","N","T","O"," ","T"," ","V","A","L","U","E","S"," ","(","1",")">>

SelectThenUpdate == <<"S","E","L","E","C","T"," ","1",";"," ","U","P","D","A","T","E"," ","T"," ","S","E","T"," ","X","=","1">>

SelectThenUpdateQualified == <<"S","E","L","E","C","T"," ","1",";"," ","U","P","D","A","T","E"," ","S",".","T"," ","S","E","T"," ","X","=","1">>

SelectThenCreate == <<"S","E","L","E","C","T"," ","1",";"," ","C","R","E","A","T","E"," ","T","A","B","L","E"," ","T"," ","(","X"," ","I","N","T",")">>

SelectThenAlter == <<"S","E","L","E","C","T"," ","1",";"," ","A","L","T","E","R"," ","T","A","B","L","E"," ","T"," ","A","D","D"," ","Y"," ","I","N","T">>

SelectThenGrant == <<"S","E","L","E","C","T"," ","1",";"," ","G","R","A","N","T"," ","A","L","L"," ","O","N"," ","T"," ","T","O"," ","U">>

SelectFromDeletedItems == <<"S","E","L","E","C","T"," ","*"," ","F","R","O","M"," ","D","E","L","E","T","E","D","_","I","T","E","M","S">>

\* the statement get_table_indexes sends, shortened
SelectIndexDefinition == <<"S","E","L","E","C","T"," ","'","C","R","E","A","T","E"," ","I","N","D","E","X"," ","'"," ","|","|"," ","I","N","D","E","X","_","N","A","M","E"," ","F","R","O","M"," ","U","S","E","R","_","I","N","D","E","X","E","S">>

SelectCall == <<"S","E","L","E","C","T","(","1",")">>

InsertIntoT == <<"I","N","S","E","R","T"," ","I","N","T","O"," ","T"," ","V","A","L","U","E","S"," ","(","1",")">>

InsertSelect == <<"I","N","S","E","R","T"," ","I","N","T","O"," ","T"," ","S","E","L","E","C","T"," ","*"," ","F","R","O","M"," ","U">>

UpdateTSet == <<"U","P","D","A","T","E"," ","T"," ","S","E","T"," ","X","=","1">>

UpdateDeleted == <<"U","P","D","A","T","E"," ","T"," ","S","E","T"," ","D","E","L","E","T","E","D","=","1">>

GrantSelect == <<"G","R","A","N","T"," ","S","E","L","E","C","T"," ","O","N"," ","T"," ","T","O"," ","U">>

RevokeSelect == <<"R","E","V","O","K","E"," ","S","E","L","E","C","T"," ","O","N"," ","T"," ","F","R","O","M"," ","U">>

TruncateTableT == <<"T","R","U","N","C","A","T","E"," ","T","A","B","L","E"," ","T">>

CreateTableT == <<"C","R","E","A","T","E"," ","T","A","B","L","E"," ","T"," ","(","X"," ","I","N","T",")">>

AlterTableT == <<"A","L","T","E","R"," ","T","A","B","L","E"," ","T"," ","A","D","D"," ","Y"," ","I","N","T">>

ExplainSelect == <<"E","X","P","L","A","I","N"," ","S","E","L","E","C","T"," ","*"," ","F","R","O","M"," ","T">>

ExplainDelete == <<"e","x","p","l","a","i","n"," ","d","e","l","e","t","e"," ","f","r","o","m"," ","t">>

ShowTables == <<"S","H","O","W"," ","T","A","B","L","E","S">>

ShowUpdates == <<"S","H","O","W"," ","U","P","D","A","T","E","S">>

DescribeT == <<"D","E","S","C","R","I","B","E"," ","T">>

AnalyzeT == <<"A","N","A","L","Y","Z","E"," ","T">>

WithSelect == <<"W","I","T","H"," ","X"," ","A","S"," ","(","S","E","L","E","C","T"," ","1",")"," ","S","E","L","E","C","T"," ","*"," ","F","R","O","M"," ","X">>

WithDelete == <<"W","I","T","H"," ","X"," ","A","S"," ","(","S","E","L","E","C","T"," ","1",")"," ","D","E","L","E","T","E"," ","F","R","O","M"," ","T">>

CallProc == <<"C","A","L","L"," ","P","(",")">>

Empty == <<>>

Blank == <<" "," "," ">>

BlankLines == <<" ","\t","\n">>

Examples ==
    {SelectStarFromT, SelectStarFromTLower, SelectStarFromTPadded, SelectMultiline,
     DeleteFromT, DropTableT, SelectThenDropTable, SelectThenDropLower,
     SelectThenDropTables, SelectThenDropIndex, SelectThenTruncate,
     SelectThenDelete, SelectThenInsert, SelectThenUpdate,
     SelectThenUpdateQualified, SelectThenCreate, SelectThenAlter,
     SelectThenGrant, SelectFromDeletedItems, SelectIndexDefinition, SelectCall,
     InsertIntoT, InsertSelect, UpdateTSet, UpdateDeleted, GrantSelect,
     RevokeSelect, TruncateTableT, CreateTableT, AlterTableT, ExplainSelect,
     ExplainDelete, ShowTables, ShowUpdates, DescribeT, AnalyzeT, WithSelect,
     WithDelete, CallProc, Empty, Blank, BlankLines}

Vocabulary ==
    {K_SELECT, K_EXPLAIN, K_INSERT, K_INTO, K_UPDATE, K_DELETE, K_FROM, K_DROP,
     K_TABLE, <<"T">>}

\* the texts of at most n words of Vocabulary, one space between two words
RECURSIVE Phrases(_)
Phrases(n) ==
    IF n = 0 THEN {<<>>}
    ELSE LET shorter == Phrases(n - 1)
         IN  shorter \cup Vocabulary
                 \cup {p \o <<" ">> \o w : p \in shorter \ {<<>>}, w \in Vocabulary}

Statements == Examples \cup Phrases(MaxWords)

\* the caller is about to call validate_sql(sql, mode)
InitV ==
    \E sql \in Statements, mode \in SecurityMode :
        /\ Constructed(DEFAULT_MAX_SIZE, DEFAULT_TTL, READONLY)
        /\ ret = Ret("validate_sql", sql, None, mode, "call", None, FALSE, NoStats)

NextV == ret.out = "call" /\ ValidateSql(ret.sql, ret.mode)

SpecV == InitV /\ [][NextV]_vars

-----------------------------------------------------------------------------
(* Properties.                                                             *)

Verdict(accepted) == IF accepted THEN "True" ELSE "False"

\* the call recorded in ret has returned or raised
Returned == ret.op # "init" /\ ret.out # "call"

Validated == ret.op = "validate_sql" /\ ret.out # "call"

LeadingKeyword(sql) == _extract_first_keyword(strip(upper(sql)))

IsBlank(sql) == \A i \in DOMAIN sql : sql[i] \in Whitespace

HasDangerousClause(sql) ==
    \E i \in DOMAIN dangerous_patterns : re_search(dangerous_patterns[i], strip(upper(sql)))

HasKeywordOf(sql, keywords) ==
    \E keyword \in keywords : Contains(strip(upper(sql)), keyword)

\* C1: after every get, set, clear and get_stats the cache holds at most
\* max_size entries, for every capacity the constructor accepts (0 included).
C1_SizeWithinCapacity == Len(cache) <= max_size

\* C2: every key of access_times is a key of cache: no call leaves an access
\* time behind for an entry that expired, was evicted or was cleared.
C2_AccessTimesOfEntries == DictKeys(access_times) \subseteq DictKeys(cache)

C2_Witness ==
    /\ ret.op = "get"
    /\ ret.out = "None"
    /\ now - ttl > 0
    /\ cache # EmptyDict
    /\ ~ DictHas(cache, _generate_key(ret.sql, ret.schema))

\* C3: an execute_query call whose statement the validator rejects under the
\* configured mode raises ValueError without touching the database, and
\* leaves cache and access_times as they were.
C3_RejectedLeavesCache ==
    [][(ret'.op = "execute_query"
            /\ ~ validate_sql(Validator, ret'.sql, security_mode))
        => (ret'.out = "ValueError" /\ ~ ret'.db
                /\ UNCHANGED <<cache, access_times>>)]_vars

C3_Witness ==
    /\ ret.op = "execute_query"
    /\ ret.out = "ValueError"
    /\ cache # EmptyDict

\* C4: the modes are ordered by permissiveness: what READONLY accepts,
\* LIMITED_WRITE accepts, and what LIMITED_WRITE accepts, FULL_ACCESS accepts.
C4_ModesOrdered ==
    Validated =>
        /\ validate_sql(Validator, ret.sql, READONLY)
               => validate_sql(Validator, ret.sql, LIMITED_WRITE)
        /\ validate_sql(Validator, ret.sql, LIMITED_WRITE)
               => validate_sql(Validator, ret.sql, FULL_ACCESS)

\* C5: under READONLY a statement is accepted exactly when its leading keyword
\* is a read keyword and, for SELECT, no dangerous clause pattern occurs in
\* the normalized text, or, for another read keyword, no write or dangerous
\* keyword occurs in it; the four statements of the specification get the
\* verdicts it gives.
C5_ReadOnlyVerdict ==
    (Validated /\ ret.mode = READONLY) =>
        /\ (ret.out = "True") <=>
               /\ LeadingKeyword(ret.sql) \in ReadSet
               /\ IF LeadingKeyword(ret.sql) = K_SELECT
                  THEN ~ HasDangerousClause(ret.sql)
                  ELSE ~ HasKeywordOf(ret.sql, WriteSet \cup DangerousSet)
        /\ ret.sql = SelectStarFromT => ret.out = "True"
        /\ ret.sql \in {DeleteFromT, DropTableT, SelectThenDropTable}
               => ret.out = "False"

C5_Witness ==
    /\ Validated
    /\ ret.mode = READONLY
    /\ ret.sql = SelectThenDropTable
    /\ ret.out = "False"

\* C6: under LIMITED_WRITE a statement is accepted exactly when its leading
\* keyword is a read or write keyword and no dangerous keyword occurs in the
\* normalized text; the four statements of the specification get the verdicts
\* it gives.
C6_LimitedWriteVerdict ==
    (Validated /\ ret.mode = LIMITED_WRITE) =>
        /\ (ret.out = "True") <=>
               /\ LeadingKeyword(ret.sql) \in ReadSet \cup WriteSet
               /\ ~ HasKeywordOf(ret.sql, DangerousSet)
        /\ ret.sql \in {InsertIntoT, UpdateTSet} => ret.out = "True"
        /\ ret.sql \in {DeleteFromT, GrantSelect} => ret.out = "False"

C6_Witness ==
    /\ Validated
    /\ ret.mode = LIMITED_WRITE
    /\ ret.sql = GrantSelect
    /\ ret.out = "False"

\* C7: under FULL_ACCESS every nonempty statement is accepted, whatever its
\* leading keyword.
C7_FullAccessAccepts ==
    (Validated /\ ret.mode = FULL_ACCESS /\ ret.sql # <<>>) => ret.out = "True"

C7_Witness ==
    /\ Validated
    /\ ret.mode = FULL_ACCESS
    /\ ret.sql = DropTableT
    /\ ret.out = "True"

\* C8, as stated: an empty or blank statement has an empty leading keyword and
\* is rejected under every mode.
C8_BlankRejectedByAll ==
    (Validated /\ IsBlank(ret.sql)) =>
        (LeadingKeyword(ret.sql) = <<>> /\ ret.out = "False")

\* C8, amended: an empty or blank statement has an empty leading keyword, which
\* is in none of the keyword sets, and is rejected under READONLY and under
\* LIMITED_WRITE.
C8_BlankRejectedBelowFullAccess ==
    (Validated /\ IsBlank(ret.sql)) =>
        /\ LeadingKeyword(ret.sql) = <<>>
        /\ LeadingKeyword(ret.sql) \notin ReadSet \cup WriteSet \cup DangerousSet
        /\ ret.mode \in {READONLY, LIMITED_WRITE} => ret.out = "False"

C8_Witness ==
    /\ Validated
    /\ ret.sql = Empty
    /\ ret.mode = LIMITED_WRITE
    /\ ret.out = "False"

\* C9: a blank statement is rejected under READONLY and LIMITED_WRITE, and
\* FULL_ACCESS is the only mode under which it is not rejected.
C9_BlankAcceptedByFullAccessOnly ==
    (Validated /\ IsBlank(ret.sql)) =>
        ((ret.out = "True") <=> (ret.mode = FULL_ACCESS))

C9_Witness ==
    /\ Validated
    /\ ret.sql = BlankLines
    /\ ret.mode = FULL_ACCESS
    /\ ret.out = "True"

\* the verdicts of the validator as the class definition leaves it
ClassVerdicts ==
    [sql \in Sqls, mode \in SecurityMode |-> validate_sql(SQLValidator, sql, mode)]

\* C10: whatever calls came before it, a validate_sql call returns the verdict
\* the freshly defined class gives for the same (sql, mode), so any two calls
\* with the same input agree, and so does the check inside execute_query; a
\* validate_sql call changes neither the cache nor the validator's sets.
C10_ValidatePure ==
    [][/\ ret'.op = "validate_sql"
            => ret'.out = Verdict(ClassVerdicts[ret'.sql, ret'.mode])
       /\ ret'.op = "execute_query"
            => ((ret'.out = "ValueError") <=> ~ ClassVerdicts[ret'.sql, security_mode])
       /\ (ret'.op = "validate_sql" /\ ret' # ret)
            => UNCHANGED <<cacheVars, validatorVars, now, security_mode>>]_vars

C10_Witness ==
    /\ ret.op = "validate_sql"
    /\ ret.out = "False"
    /\ cache # EmptyDict
    /\ now > 0

-----------------------------------------------------------------------------
(* validate_sql on statements in mixed case.                               *)

SelectRevokeKelvin == <<"s","e","l","e","c","t"," ","R","E","V","O",KelvinSign,"E">>

SelectDropTableMixed == <<"S","e","l","e","c","t"," ","D","r","o","p"," ","t","a","b","l","e">>

CaseVocabulary ==
    {<<"s","e","l","e","c","t">>, <<"S","e","l","e","c","t">>, <<"S","E","L","E","C","T">>, <<"e","x","p","l","a","i","n">>, <<"I","n","s","e","r","t">>, <<"r","e","v","o","k","e">>,
     <<"R","E","V","O",KelvinSign,"E">>, <<"D","r","o","p">>, <<"t","a","b","l","e">>, <<"t">>}

\* the texts of at most n words of CaseVocabulary, one space between two words
RECURSIVE CasePhrases(_)
CasePhrases(n) ==
    IF n = 0 THEN {<<>>}
    ELSE LET shorter == CasePhrases(n - 1)
         IN  shorter \cup CaseVocabulary
                 \cup {p \o <<" ">> \o w : p \in shorter \ {<<>>}, w \in CaseVocabulary}

CaseStatements == Examples \cup CasePhrases(MaxWords)

\* the caller is about to call validate_sql(sql, mode)
InitCase ==
    \E sql \in CaseStatements, mode \in SecurityMode :
        /\ Constructed(DEFAULT_MAX_SIZE, DEFAULT_TTL, READONLY)
        /\ ret = Ret("validate_sql", sql, None, mode, "call", None, FALSE, NoStats)

SpecCase == InitCase /\ [][NextV]_vars

\* blank text put before or after a statement
Paddings == {<<>>, <<" ">>, <<"\t","\n">>}

Padded(sql) == {before \o sql \o after : before \in Paddings, after \in Paddings}

IsAscii(text) == KelvinSign \notin Range(text)

\* C11, as stated: for every mode and every statement, validate_sql gives the
\* statement, the statement in lower case, the statement in upper case and
\* the statement with blanks added before or after it the same verdict.
C11_CaseInsensitive ==
    Validated =>
        \A variant \in {lower(ret.sql), upper(ret.sql)} \cup Padded(ret.sql) :
            ret.out = Verdict(validate_sql(Validator, variant, ret.mode))

\* C11, amended: the same, for every statement whose letters are ASCII.
C11_CaseInsensitiveAscii ==
    (Validated /\ IsAscii(ret.sql)) =>
        \A variant \in {lower(ret.sql), upper(ret.sql)} \cup Padded(ret.sql) :
            ret.out = Verdict(validate_sql(Validator, variant, ret.mode))

C11_Witness ==
    /\ Validated
    /\ ret.sql = SelectDropTableMixed
    /\ ret.mode = READONLY
    /\ ret.out = "False"
    /\ lower(ret.sql) # ret.sql
    /\ upper(ret.sql) # ret.sql

-----------------------------------------------------------------------------
(* The cache's operations, step by step.                                   *)

\* the step is a call of get, of set
GetStep == ret'.op = "get" /\ now' = now

SetStep == ret'.op = "set" /\ now' = now

\* the key of the call recorded in ret after the step
CalledKey == _generate_key(ret'.sql, ret'.schema)

Absent(key) == ~ DictHas(cache, key)

Expired(key) == DictHas(cache, key) /\ now - DictGet(cache, key).timestamp > ttl

\* C12: get returns None exactly when the key is absent or more than ttl has
\* passed since the entry's timestamp (at exactly ttl it is a hit), and an
\* expired entry is removed from cache and access_times; a hit returns the
\* stored data and leaves the entry, its timestamp included, as it was; an
\* entry appears or gets a new timestamp only in a set of its key, which
\* stamps it with the time of the call.
C12_GetNeverReturnsExpired ==
    [][/\ GetStep =>
            /\ (ret'.value = None) <=> (Absent(CalledKey) \/ Expired(CalledKey))
            /\ Expired(CalledKey) =>
                   ~ DictHas(cache', CalledKey) /\ ~ DictHas(access_times', CalledKey)
            /\ ret'.value # None =>
                   /\ ret'.value = Some(DictGet(cache, CalledKey).data)
                   /\ cache' = cache
       /\ \A j \in DOMAIN cache' :
              (\/ Absent(cache'[j][1])
               \/ DictGet(cache, cache'[j][1]).timestamp # cache'[j][2].timestamp)
                  => /\ SetStep
                     /\ cache'[j][1] = CalledKey
                     /\ cache'[j][2].timestamp = now]_vars

\* a hit exactly ttl after the set
C12_Witness ==
    /\ ret.op = "get"
    /\ ret.value # None
    /\ ttl > 0
    /\ DictHas(cache, _generate_key(ret.sql, ret.schema))
    /\ now - DictGet(cache, _generate_key(ret.sql, ret.schema)).timestamp = ttl
    /\ DictGet(access_times, _generate_key(ret.sql, ret.schema)) = now

-----------------------------------------------------------------------------
(* QueryCache and callers that keep the lists they pass and receive.  A    *)
(* list is an object on the heap; set stores and get returns its address   *)
(* (src/database.py:59, 70), as Python passes and returns references.      *)

MaxObjects == 2

\* the caller builds a list
NewList(contents) ==
    /\ Len(heap) < MaxObjects
    /\ heap' = Append(heap, contents)
    /\ UNCHANGED <<cacheVars, now, security_mode, validatorVars, ret, touched,
                   allowed_schemas, raised, threads, overlapped>>

\* the caller changes a list it holds (append, del, clear)
Mutate(address, contents) ==
    /\ heap[address] # contents
    /\ heap' = [heap EXCEPT ![address] = contents]
    /\ UNCHANGED <<cacheVars, now, security_mode, validatorVars, ret, touched,
                   allowed_schemas, raised, threads, overlapped>>

InitAlias ==
    /\ Constructed(MaxCapacity, MaxTtl, READONLY)
    /\ ret = NoCall

\* a QueryCache and a caller that passes lists to set, receives them from get
\* and changes the lists it holds
NextAlias ==
    \/ \E contents \in Payloads : NewList(contents)
    \/ \E sql \in CacheSqls, address \in DOMAIN heap : Set(sql, address, None)
    \/ \E sql \in CacheSqls : Get(sql, None)
    \/ \E address \in DOMAIN heap, contents \in Payloads : Mutate(address, contents)

SpecAlias == InitAlias /\ [][NextAlias]_vars

\* the step changes a list and calls nothing
MutateStep == Len(heap') = Len(heap) /\ heap' # heap

\* the contents of the list get(sql) returns, None on a miss
Payload(objects, sql) ==
    LET value == get(Self, sql, None, now).value
    IN  IF value = None THEN None ELSE Some(objects[value[1]])

\* C13: get returns a copy of the stored payload: when a caller changes a
\* list it passed to set or received from get, what a later get of any key
\* returns is what it returned before the change.
C13_GetReturnsCopy ==
    [][MutateStep =>
           \A sql \in CacheSqls : Payload(heap', sql) = Payload(heap, sql)]_vars

-----------------------------------------------------------------------------
(* QueryCache and a caller that notes, in touched, each set it makes and   *)
(* each hit it gets.                                                       *)

MaxTouches == 4

Touch(op, key) == [op |-> op, key |-> key]

NotedGet(sql, schema) ==
    \E r \in {get(Self, sql, schema, now)} :
        /\ r.value # None => Len(touched) < MaxTouches
        /\ Becomes(r.q)
        /\ ret' = Ret("get", sql, schema, security_mode,
                      IF r.value = None THEN "None" ELSE "data", r.value,
                      FALSE, NoStats)
        /\ touched' = IF r.value = None THEN touched
                      ELSE Append(touched, Touch("get", _generate_key(sql, schema)))
        /\ UNCHANGED <<now, security_mode, validatorVars, heap,
                   allowed_schemas, raised, threads, overlapped>>

NotedSet(sql, data, schema) ==
    /\ Len(touched) < MaxTouches
    /\ \E q \in {set(Self, sql, data, schema, now)} : Becomes(q)
    /\ ret' = Ret("set", sql, schema, security_mode, "return", Some(data),
                  FALSE, NoStats)
    /\ touched' = Append(touched, Touch("set", _generate_key(sql, schema)))
    /\ UNCHANGED <<now, security_mode, validatorVars, heap,
                   allowed_schemas, raised, threads, overlapped>>

\* no capacity, the least and the largest; a lifetime within which an entry
\* can expire, and one within which none does
InitLru ==
    \E a_max_size \in {0, 1, MaxCapacity}, a_ttl \in {MaxTtl, MaxTime} :
        /\ Constructed(a_max_size, a_ttl, READONLY)
        /\ ret = NoCall

NextLru ==
    \/ \E sql \in CacheSqls, schema \in Schemas : NotedGet(sql, schema)
    \/ \E sql \in CacheSqls, schema \in Schemas : NotedSet(sql, <<"row">>, schema)
    \/ Tick

SpecLru == InitLru /\ [][NextLru]_vars

AtCapacity == Len(cache) >= max_size

\* the keys set evicts: the first key of access_times, in its order, whose
\* access time is the least
LeastAccessed ==
    {access_times[i][1] : i \in
        {i \in DOMAIN access_times :
            /\ \A j \in DOMAIN access_times : access_times[i][2] <= access_times[j][2]
            /\ \A j \in 1..(i - 1) : access_times[j][2] > access_times[i][2]}}

\* after the step the called key holds the data passed, stamped now
Stamped ==
    /\ DictHas(cache', CalledKey)
    /\ DictGet(cache', CalledKey).data = ret'.value[1]
    /\ DictGet(cache', CalledKey).timestamp = now
    /\ DictHas(access_times', CalledKey)
    /\ DictGet(access_times', CalledKey) = now

SetKeys == {touched[i].key : i \in {i \in DOMAIN touched : touched[i].op = "set"}}

LastTouch(key) ==
    SetMin({i \in DOMAIN touched :
               /\ touched[i].key = key
               /\ \A j \in (i + 1)..Len(touched) : touched[j].key # key})

LeastRecentlyTouched ==
    {key \in SetKeys : \A other \in SetKeys : LastTouch(key) <= LastTouch(other)}

\* the step sets one more key after max_size >= 1 keys were set, once each,
\* into the cache that started empty
OverflowStep ==
    /\ SetStep
    /\ max_size >= 1
    /\ Cardinality(SetKeys) = max_size
    /\ \A i, j \in DOMAIN touched :
           (touched[i].op = "set" /\ touched[j].op = "set" /\ i # j)
               => touched[i].key # touched[j].key
    /\ CalledKey \notin SetKeys

\* no two entries have the same access time
DistinctAccessTimes ==
    \A i, j \in DOMAIN access_times :
        i # j => access_times[i][2] # access_times[j][2]

\* C15, as stated: setting max_size + 1 distinct keys into an empty cache of
\* capacity max_size >= 1, with any gets in between, leaves max_size entries,
\* and the one key absent is the least recently touched (set or hit) before
\* the last set.
C15_OverflowEvictsLeastRecent ==
    [][OverflowStep =>
           /\ Len(cache') = max_size
           /\ (SetKeys \cup {CalledKey}) \ DictKeys(cache') = LeastRecentlyTouched]_vars

\* C15, amended: the same, provided that no entry expired in a get before the
\* last set and that the entries' access times are distinct.
C15_OverflowEvictsLeastRecentUntied ==
    [][(OverflowStep /\ DictKeys(cache) = SetKeys /\ DistinctAccessTimes) =>
           /\ Len(cache') = max_size
           /\ (SetKeys \cup {CalledKey}) \ DictKeys(cache') = LeastRecentlyTouched]_vars

\* three keys set into a cache of two, the first hit again after the second
\* was set: the second is the one evicted
C15_Witness ==
    /\ ret.op = "set"
    /\ max_size = 2
    /\ Len(touched) = 4
    /\ touched[1].op = "set"
    /\ touched[2].op = "set"
    /\ touched[3] = Touch("get", touched[1].key)
    /\ touched[4].op = "set"
    /\ Cardinality({touched[1].key, touched[2].key, touched[4].key}) = 3
    /\ DictKeys(cache) = {touched[1].key, touched[4].key}
    /\ DictGet(access_times, touched[1].key) < DictGet(access_times, touched[4].key)

-----------------------------------------------------------------------------
(* Properties of the cache's operations.                                   *)

ClearStep == ret'.op = "clear" /\ now' = now

\* C16: a get made right after set(sql, data, schema) returns that data; a
\* get of an entry no older than ttl returns the data stored in it; and from
\* one state to the next an entry stays as it is unless the step is a set of
\* its key, a clear, a get of its key that finds it expired, or a set at
\* capacity that evicts it.
C16_RoundTripAndPersistence ==
    [][/\ SetStep =>
              get(Self', ret'.sql, ret'.schema, now').value = ret'.value
       /\ (GetStep /\ ~ Absent(CalledKey) /\ ~ Expired(CalledKey)) =>
              ret'.value = Some(DictGet(cache, CalledKey).data)
       /\ \A i \in DOMAIN cache :
              \/ /\ DictHas(cache', cache[i][1])
                 /\ DictGet(cache', cache[i][1]) = cache[i][2]
              \/ SetStep /\ cache[i][1] = CalledKey
              \/ SetStep /\ AtCapacity /\ cache[i][1] \in LeastAccessed
              \/ ClearStep
              \/ GetStep /\ cache[i][1] = CalledKey /\ Expired(CalledKey)]_vars

\* ttl after set(sql, data, schema), with another entry cached, a get would
\* still return the data
C16_Witness ==
    /\ ret.op = "set"
    /\ ret.value = Some(<<"row">>)
    /\ ttl > 0
    /\ Len(cache) = 2
    /\ DictHas(cache, _generate_key(ret.sql, ret.schema))
    /\ now - DictGet(cache, _generate_key(ret.sql, ret.schema)).timestamp = ttl
    /\ get(Self, ret.sql, ret.schema, now).value = ret.value

\* C17: clear empties cache and access_times and leaves max_size and ttl;
\* while the cache is empty get_stats reports size 0 and no keys and every
\* get returns None and changes nothing; only a set makes it non-empty again.
C17_ClearEmpties ==
    [][/\ ClearStep =>
              /\ cache' = EmptyDict
              /\ access_times' = EmptyDict
              /\ UNCHANGED <<max_size, ttl>>
       /\ cache = EmptyDict =>
              /\ get_stats(Self).cache_size = 0
              /\ get_stats(Self).entries = <<>>
              /\ \A sql \in CacheSqls, schema \in Schemas :
                     get(Self, sql, schema, now) = [q |-> Self, value |-> None]
       /\ (cache = EmptyDict /\ cache' # EmptyDict) => SetStep]_vars

\* a clear has returned, some time after construction
C17_Witness ==
    /\ ret.op = "clear"
    /\ now > 0
    /\ max_size = MaxCapacity
    /\ cache = EmptyDict
    /\ access_times = EmptyDict
    /\ get_stats(Self).cache_size = 0

GetStatsStep == ret'.op = "get_stats" /\ now' = now

\* C18: get_stats leaves cache, access_times, max_size and ttl as they are,
\* stale entries included, and reports the number of entries, max_size, ttl
\* and exactly the keys of the entries.
C18_GetStatsReadOnly ==
    [][GetStatsStep =>
           /\ UNCHANGED cacheVars
           /\ ret'.stats.cache_size = Len(cache)
           /\ ret'.stats.max_size = max_size
           /\ ret'.stats.ttl = ttl
           /\ Len(ret'.stats.entries) = Len(cache)
           /\ Range(ret'.stats.entries) = DictKeys(cache)]_vars

\* get_stats has reported an entry older than ttl, which is still cached
C18_Witness ==
    /\ ret.op = "get_stats"
    /\ ret.stats.cache_size = 2
    /\ Len(cache) = 2
    /\ \E i \in DOMAIN cache :
           /\ now - cache[i][2].timestamp > ttl
           /\ cache[i][1] \in Range(ret.stats.entries)
           /\ DictGet(access_times, cache[i][1]) < now

-----------------------------------------------------------------------------
(* DamengDatabase.execute_query and execute_safe_query called with         *)
(* use_cache left at its default (True), on statements that are queries    *)
(* by keyword, by prefix only, or not at all.                              *)

ExecSqls == {SelectOne, SelectCall, AnalyzeT, InsertIntoT}

NextExec ==
    \/ \E sql \in ExecSqls, db \in DbAnswers : ExecuteQuery(sql, None, TRUE, db)
    \/ \E sql \in ExecSqls, db \in DbAnswers : ExecuteSafeQuery(sql, None, db)
    \/ Tick

SpecExec == InitDb /\ [][NextExec]_vars

ExecOps == {"execute_query", "execute_safe_query"}

\* the last call was answered from the cache
ServedFromCache == ret.op \in ExecOps /\ ret.out = "return" /\ ~ ret.db

\* the upper-cased, trimmed text begins with one of the five query keywords
HasQueryPrefix(sql) ==
    \E prefix \in {K_SELECT, K_WITH, K_SHOW, K_DESCRIBE, K_EXPLAIN} :
        HasAt(strip(upper(sql)), prefix, 1)

\* C19, as stated: under every mode, each cache entry, and each statement
\* answered from the cache, has a leading keyword in the read set.
C19_CachedHaveReadKeyword ==
    /\ \A i \in DOMAIN cache : LeadingKeyword(cache[i][2].sql) \in ReadSet
    /\ ServedFromCache => LeadingKeyword(ret.sql) \in ReadSet

\* C19, amended: each cache entry, and each statement answered from the
\* cache, begins with SELECT, WITH, SHOW, DESCRIBE or EXPLAIN, and under
\* READONLY and LIMITED_WRITE that word is its leading keyword; no entry
\* belongs to an ANALYZE statement.
C19_CachedHaveQueryPrefix ==
    \A sql \in {cache[i][2].sql : i \in DOMAIN cache}
               \cup (IF ServedFromCache THEN {ret.sql} ELSE {}) :
        /\ HasQueryPrefix(sql)
        /\ LeadingKeyword(sql) # K_ANALYZE
        /\ security_mode # FULL_ACCESS => LeadingKeyword(sql) \in ReadSet

\* under FULL_ACCESS a statement that only begins with SELECT was cached and
\* then answered from the cache
C19_Witness ==
    /\ security_mode = FULL_ACCESS
    /\ ServedFromCache
    /\ ret.sql = SelectCall
    /\ DictHas(cache, _generate_key(SelectCall, None))
    /\ DictHas(cache, _generate_key(SelectOne, None))

\* the step is a call of execute_query or execute_safe_query (a step that
\* only advances the clock is time passing)
TickStep == now' = now + 1 /\ UNCHANGED <<cacheVars, ret>>

ExecStep == ret'.op \in ExecOps /\ ~ TickStep

\* the statement of the call passes the checks made before the cache is
\* looked at
Accepted ==
    /\ validate_sql(Validator, ret'.sql, security_mode)
    /\ ret'.op = "execute_safe_query" => validate_sql(Validator, ret'.sql, READONLY)

ExecKey == _generate_key(ret'.sql, None)

Fresh == DictHas(cache, ExecKey) /\ ~ Expired(ExecKey)

\* what the call did with the cache and the database, for a statement that
\* passed the checks: a fresh entry is returned and the database not called;
\* otherwise the database is called, its rows are returned and cached under
\* the statement's key, stamped with the time they arrived; and when the call
\* raises, the key has no entry or the entry it had before
LookupThenDatabaseThenWrite ==
    /\ Fresh =>
           /\ ret'.out = "return"
           /\ ~ ret'.db
           /\ ret'.value = Some(DictGet(cache, ExecKey).data)
    /\ (~ Fresh /\ ret'.out = "return") =>
           /\ ret'.db
           /\ DictHas(cache', ExecKey)
           /\ Some(DictGet(cache', ExecKey).data) = ret'.value
           /\ DictGet(cache', ExecKey).timestamp = now'
    /\ ret'.out # "return" =>
           /\ ret'.out = "dmPython.Error"
           /\ ~ Fresh
           /\ DictHas(cache', ExecKey) =>
                  (DictHas(cache, ExecKey)
                       /\ DictGet(cache', ExecKey) = DictGet(cache, ExecKey))

\* C20, as stated: for every accepted statement whose leading keyword is in
\* the read set, execute_query looks the statement up, returns a hit without
\* calling the database, on a miss calls the database and caches the rows
\* once they are read, and creates or overwrites no entry when the call
\* raises.
C20_ReadKeywordsCached ==
    [][(ExecStep /\ Accepted /\ LeadingKeyword(ret'.sql) \in ReadSet) =>
           LookupThenDatabaseThenWrite]_vars

\* C20, amended: the same for the read keywords SELECT, WITH, SHOW, DESCRIBE
\* and EXPLAIN; a statement that does not begin with one of them (ANALYZE
\* included) always goes to the database and leaves the cache as it is.
C20_QueryKeywordsCached ==
    [][(ExecStep /\ Accepted) =>
           /\ LeadingKeyword(ret'.sql) \in ReadSet \ {K_ANALYZE} =>
                  LookupThenDatabaseThenWrite
           /\ ~ HasQueryPrefix(ret'.sql) =>
                  /\ UNCHANGED cacheVars
                  /\ ret'.out = "return" => ret'.db]_vars

\* under READONLY a system query was answered from the cache, some time
\* after its rows were cached
C20_Witness ==
    /\ security_mode = READONLY
    /\ ret.op = "execute_safe_query"
    /\ ServedFromCache
    /\ ret.sql = SelectOne
    /\ ret.value = Some(<<"row">>)
    /\ DictGet(cache, _generate_key(SelectOne, None)).timestamp < now
    /\ DictGet(access_times, _generate_key(SelectOne, None)) = now

-----------------------------------------------------------------------------
(* The operations of DamengDatabase that issue statements of their own:    *)
(* each checks the namespace, sends its statement through                  *)
(* execute_safe_query, and returns or raises.                              *)

DEFAULT_SCHEMA == <<"S","Y","S","D","B","A">>

OtherSchema == <<"H","R">>

TableT == <<"T">>

TableU == <<"U">>

\* the statement _is_schema_allowed sends, shortened
SelectUsername == <<"S","E","L","E","C","T"," ","U","S","E","R","N","A","M","E">>

\* the statement get_all_tables sends, shortened
SelectAllTables == <<"S","E","L","E","C","T"," ","T","A","B","L","E","_","N","A","M","E">>

\* the statement get_table_comment sends, shortened
SelectComments == <<"S","E","L","E","C","T"," ","C","O","M","M","E","N","T","S">>

\* what an operation leaves: the cache, how it ended, what it returned, the
\* clock, and the exceptions raised on the way
Op(q, out, value, time, exceptions) ==
    [q |-> q, out |-> out, value |-> value, time |-> time, raised |-> exceptions]

\* the exception behind an outcome of execute_query or execute_safe_query:
\* their only ValueError is the validator's rejection
Exceptions(out) ==
    IF out = "return" THEN <<>>
    ELSE IF out = "ValueError" THEN <<"PolicyViolation">> ELSE <<out>>

\* the element of a singleton: { e(x) : x \in {d} } binds d's value once
The(S) == CHOOSE x \in S : TRUE

_is_schema_allowed(q, v, mode, allowed, schema, db, time) ==
    IF Star \in allowed THEN Op(q, "return", TRUE, time, <<>>)
    ELSE IF Auto \in allowed
    THEN The({IF r.out = "return"
              THEN Op(r.q, "return", Len(r.value[1]) > 0, r.time, <<>>)
              ELSE Op(r.q, "return", FALSE, r.time, Exceptions(r.out)) :
                  r \in {execute_safe_query(q, v, mode, SelectUsername,
                                            Some(<<schema>>), db, time)}})
    ELSE Op(q, "return", schema \in allowed, time, <<>>)

\* schema = None stands for the default namespace
SchemaOf(schema) == IF schema = None THEN DEFAULT_SCHEMA ELSE schema[1]

\* raise ValueError: the namespace is not allowed
SchemaNotAllowed(a) ==
    Op(a.q, "ValueError", None, a.time, a.raised \o <<"SchemaNotAllowed">>)

get_all_tables(q, v, mode, allowed, schema, db1, db2, time) ==
    The({IF ~ a.value THEN SchemaNotAllowed(a)
         ELSE The({Op(r.q, r.out, r.value, r.time, a.raised \o Exceptions(r.out)) :
                       r \in {execute_safe_query(a.q, v, mode, SelectAllTables,
                                                 Some(<<SchemaOf(schema)>>), db2,
                                                 a.time)}}) :
             a \in {_is_schema_allowed(q, v, mode, allowed, SchemaOf(schema), db1,
                                       time)}})

get_table_comment(q, v, mode, allowed, table_name, schema, db1, db2, time) ==
    The({IF ~ a.value THEN SchemaNotAllowed(a)
         ELSE The({IF r.out = "return"
                   THEN Op(r.q, "return",
                           Some(IF r.value[1] # <<>> THEN r.value[1][1] ELSE ""),
                           r.time, a.raised)
                   ELSE Op(r.q, "return", Some(""), r.time,
                           a.raised \o Exceptions(r.out)) :
                       r \in {execute_safe_query(a.q, v, mode, SelectComments,
                                                 Some(<<table_name>>), db2, a.time)}}) :
             a \in {_is_schema_allowed(q, v, mode, allowed, SchemaOf(schema), db1,
                                       time)}})

get_table_indexes(q, v, mode, allowed, table_name, schema, db1, db2, time) ==
    The({IF ~ a.value THEN SchemaNotAllowed(a)
         ELSE The({IF r.out = "return"
                   THEN Op(r.q, "return", r.value, r.time, a.raised)
                   ELSE Op(r.q, "return", Some(<<>>), r.time,
                           a.raised \o Exceptions(r.out)) :
                       r \in {execute_safe_query(a.q, v, mode, SelectIndexDefinition,
                                                 Some(<<table_name>>), db2, a.time)}}) :
             a \in {_is_schema_allowed(q, v, mode, allowed, SchemaOf(schema), db1,
                                       time)}})

\* an operation ends: the cache, the clock, the record of the call (which
\* does not say whether the database was called)
Ends(op, sql, schema, r) ==
    /\ r.time <= MaxTime
    /\ Becomes(r.q)
    /\ now' = r.time
    /\ ret' = Ret(op, sql, schema, security_mode, r.out, r.value, FALSE, NoStats)
    /\ raised' = r.raised
    /\ UNCHANGED <<security_mode, validatorVars, heap, touched, allowed_schemas,
                   threads, overlapped>>

\* db.execute_query(sql), as the execute_query tool calls it
CallExecuteQuery(sql, db) ==
    \E r \in {execute_query(Self, Validator, security_mode, sql, None, TRUE, db, now)} :
        Ends("execute_query", sql, None, Op(r.q, r.out, r.value, r.time, Exceptions(r.out)))

GetAllTables(schema, db1, db2) ==
    \E r \in {get_all_tables(Self, Validator, security_mode, allowed_schemas,
                             schema, db1, db2, now)} :
        Ends("get_all_tables", SelectAllTables, schema, r)

GetTableComment(table_name, schema, db1, db2) ==
    \E r \in {get_table_comment(Self, Validator, security_mode, allowed_schemas,
                                table_name, schema, db1, db2, now)} :
        Ends("get_table_comment", SelectComments, schema, r)

GetTableIndexes(table_name, schema, db1, db2) ==
    \E r \in {get_table_indexes(Self, Validator, security_mode, allowed_schemas,
                                table_name, schema, db1, db2, now)} :
        Ends("get_table_indexes", SelectIndexDefinition, schema, r)

\* the database's answers to the operations' statements
OpAnswers ==
    {DbAnswer("ok", <<>>, 0), DbAnswer("ok", <<"row">>, 0),
     DbAnswer("execute_error", <<>>, 0)}

OpSchemas == {None, Some(OtherSchema)}

\* allowed_schemas as configured: every namespace, discovery, or a list
SchemaConfigs == {{Star}, {Auto}, {DEFAULT_SCHEMA}}

\* a cache of one entry, as cache_max_size may configure it
InitOps ==
    \E a_mode \in SecurityMode, a_schemas \in SchemaConfigs :
        /\ cache = QueryCache(1, MaxTtl).cache
        /\ access_times = QueryCache(1, MaxTtl).access_times
        /\ max_size = QueryCache(1, MaxTtl).max_size
        /\ ttl = QueryCache(1, MaxTtl).ttl
        /\ now = 0
        /\ security_mode = a_mode
        /\ READONLY_OPERATIONS = SQLValidator.READONLY_OPERATIONS
        /\ WRITE_OPERATIONS = SQLValidator.WRITE_OPERATIONS
        /\ DANGEROUS_OPERATIONS = SQLValidator.DANGEROUS_OPERATIONS
        /\ heap = <<>>
        /\ touched = <<>>
        /\ allowed_schemas = a_schemas
        /\ raised = <<>>
        /\ threads = [t \in Threads |-> Idle]
        /\ overlapped = FALSE
        /\ ret = NoCall

\* the answers to the statement _is_schema_allowed sends, which it sends only
\* when namespaces are discovered
SchemaAnswers == IF Auto \in allowed_schemas THEN OpAnswers ELSE {DbAnswer("ok", <<>>, 0)}

\* the calls follow one another within the lifetime of the entries
NextOps ==
    \/ \E sql \in Sqls, db \in OpAnswers : CallExecuteQuery(sql, db)
    \/ \E schema \in OpSchemas, db1 \in SchemaAnswers, db2 \in OpAnswers :
           GetAllTables(schema, db1, db2)
    \/ \E schema \in OpSchemas, db1 \in SchemaAnswers, db2 \in OpAnswers :
           GetTableComment(TableT, schema, db1, db2)
    \/ \E schema \in OpSchemas, db1 \in SchemaAnswers, db2 \in OpAnswers :
           GetTableIndexes(TableT, schema, db1, db2)

SpecOps == InitOps /\ [][NextOps]_vars

Operations == {"execute_query", "get_all_tables", "get_table_comment", "get_table_indexes"}

\* the validator rejected a statement inside the last operation
PolicyRaised == \E i \in DOMAIN raised : raised[i] = "PolicyViolation"

\* C21: whenever the validator rejects a statement inside an operation of the
\* database, the operation raises the rejection to its caller: none returns
\* a normal result in its place.
C21_RejectionSurfaced ==
    (ret.op \in Operations /\ PolicyRaised) => ret.out = "ValueError"

-----------------------------------------------------------------------------
(* SQLValidator.get_error_message.  The message is the record of what its  *)
(* text says: the tier its first words name, the category of operation it *)
(* calls forbidden, and the keyword it ends with.                          *)

Message(tier, category, keyword) ==
    [tier |-> tier, category |-> category, keyword |-> keyword]

get_error_message(v, sql, mode) ==
    LET sql_upper == strip(upper(sql))
        first_keyword == _extract_first_keyword(sql_upper)
    IN  IF mode = READONLY
        THEN IF first_keyword \in v.WRITE_OPERATIONS
             THEN Message(READONLY, "write", Some(first_keyword))
             ELSE IF first_keyword \in v.DANGEROUS_OPERATIONS
             THEN Message(READONLY, "dangerous", Some(first_keyword))
             ELSE Message(READONLY, "unsupported", Some(first_keyword))
        ELSE IF mode = LIMITED_WRITE
        THEN IF first_keyword \in v.DANGEROUS_OPERATIONS
             THEN Message(LIMITED_WRITE, "dangerous", Some(first_keyword))
             ELSE Message(LIMITED_WRITE, "unsupported", Some(first_keyword))
        ELSE Message(None, "forbidden", None)

GetErrorMessage(sql, mode) ==
    /\ ret' = Ret("get_error_message", sql, None, mode, "return",
                  Some(get_error_message(Validator, sql, mode)), FALSE, NoStats)
    /\ UNCHANGED <<cacheVars, now, security_mode, validatorVars, callerVars>>

\* the caller is about to call get_error_message(sql, mode)
NextMsg == ret.out = "call" /\ GetErrorMessage(ret.sql, ret.mode)

SpecMsg == InitV /\ [][NextMsg]_vars

\* the keywords on which validate_sql rejects a statement: the leading
\* keyword when it is not allowed, else the keywords it found in the text
Offending(sql, mode) ==
    LET sql_upper == strip(upper(sql))
        allowed == IF mode = READONLY THEN ReadSet ELSE ReadSet \cup WriteSet
    IN  IF LeadingKeyword(sql) \notin allowed THEN {LeadingKeyword(sql)}
        ELSE IF mode = READONLY /\ LeadingKeyword(sql) = K_SELECT
        THEN {dangerous_patterns[i][2].lit : i \in
                  {j \in DOMAIN dangerous_patterns :
                       re_search(dangerous_patterns[j], sql_upper)}}
        ELSE IF mode = READONLY
        THEN {k \in WriteSet \cup DangerousSet : Contains(sql_upper, k)}
        ELSE {k \in DangerousSet : Contains(sql_upper, k)}

Category(keyword) ==
    IF keyword \in WriteSet THEN "write"
    ELSE IF keyword \in DangerousSet THEN "dangerous" ELSE "unsupported"

Explained == ret.op = "get_error_message" /\ ret.out = "return"

\* C22: for every statement and tier that validate_sql rejects, the message
\* of get_error_message names the tier and the keyword, or the category of
\* keyword, on which the statement was rejected -- also when that keyword
\* is not the leading one.
C22_MessageNamesCause ==
    (Explained /\ ~ validate_sql(Validator, ret.sql, ret.mode)) =>
        /\ ret.value[1].tier = ret.mode
        /\ \E k \in Offending(ret.sql, ret.mode) :
               \/ ret.value[1].keyword = Some(k)
               \/ ret.value[1].category = Category(k)

-----------------------------------------------------------------------------
(* QueryCache, one dictionary operation at a time.  A caller inside a      *)
(* method stands at the line it executes next; a step is one test, read,   *)
(* write or deletion on cache or access_times.  cache[key] and del on a    *)
(* key that is not there raise KeyError, min() of no keys raises           *)
(* ValueError, and these end the method.                                   *)

stepFrame == <<max_size, ttl, now, security_mode, validatorVars, ret, heap, touched,
               allowed_schemas, raised>>

At(t, line) == threads[t].at = line

Goto(t, line) == threads' = [threads EXCEPT ![t].at = line]

\* the method returns or raises: the caller is outside the cache again
Leaves(t, out, value) ==
    threads' = [threads EXCEPT ![t] = [Idle EXCEPT !.op = threads[t].op,
                                                   !.sql = threads[t].sql,
                                                   !.out = out, !.value = value]]

Enters(t, op, sql, data, line) ==
    /\ At(t, "idle")
    /\ threads' = [threads EXCEPT ![t] = [Idle EXCEPT !.op = op, !.at = line,
                                                     !.sql = sql, !.data = data,
                                                     !.key = _generate_key(sql, None),
                                                     !.out = "running"]]
    /\ overlapped' = (overlapped \/ \E u \in Threads \ {t} : ~ At(u, "idle"))
    /\ UNCHANGED <<cache, access_times, stepFrame>>

CallGet(t, sql) == Enters(t, "get", sql, None, "get_48")

CallSet(t, sql, data) == Enters(t, "set", sql, Some(data), "set_66")

CallClear(t) == Enters(t, "clear", <<>>, None, "clear_95")

CallGetStats(t) == Enters(t, "get_stats", <<>>, None, "stats_101")

\* if key not in self.cache: return None
Get48(t) ==
    /\ At(t, "get_48")
    /\ IF DictHas(cache, threads[t].key) THEN Goto(t, "get_52")
       ELSE Leaves(t, "return", None)
    /\ UNCHANGED <<cache, access_times, overlapped, stepFrame>>

\* if time.time() - self.cache[key]['timestamp'] > self.ttl: self._remove(key)
Get52(t) ==
    /\ At(t, "get_52")
    /\ IF ~ DictHas(cache, threads[t].key) THEN Leaves(t, "KeyError", None)
       ELSE IF now - DictGet(cache, threads[t].key).timestamp > ttl
       THEN threads' = [threads EXCEPT ![t].at = "remove_80",
                                       ![t].target = threads[t].key]
       ELSE Goto(t, "get_56")
    /\ UNCHANGED <<cache, access_times, overlapped, stepFrame>>

\* self.access_times[key] = time.time()
Get56(t) ==
    /\ At(t, "get_56")
    /\ access_times' = DictPut(access_times, threads[t].key, now)
    /\ Goto(t, "get_59")
    /\ UNCHANGED <<cache, overlapped, stepFrame>>

\* return self.cache[key]['data']
Get59(t) ==
    /\ At(t, "get_59")
    /\ IF DictHas(cache, threads[t].key)
       THEN Leaves(t, "return", Some(DictGet(cache, threads[t].key).data))
       ELSE Leaves(t, "KeyError", None)
    /\ UNCHANGED <<cache, access_times, overlapped, stepFrame>>

\* _remove: if key in self.cache
Remove80(t) ==
    /\ At(t, "remove_80")
    /\ Goto(t, IF DictHas(cache, threads[t].target) THEN "remove_81" ELSE "remove_82")
    /\ UNCHANGED <<cache, access_times, overlapped, stepFrame>>

\* del self.cache[key]
Remove81(t) ==
    /\ At(t, "remove_81")
    /\ IF DictHas(cache, threads[t].target)
       THEN cache' = DictDel(cache, threads[t].target) /\ Goto(t, "remove_82")
       ELSE cache' = cache /\ Leaves(t, "KeyError", None)
    /\ UNCHANGED <<access_times, overlapped, stepFrame>>

\* if key in self.access_times; _remove returns to get, which returns None,
\* or to set, which goes on to store
AfterRemove(t) ==
    IF threads[t].op = "get" THEN Leaves(t, "return", None) ELSE Goto(t, "set_69")

Remove82(t) ==
    /\ At(t, "remove_82")
    /\ IF DictHas(access_times, threads[t].target) THEN Goto(t, "remove_83")
       ELSE AfterRemove(t)
    /\ UNCHANGED <<cache, access_times, overlapped, stepFrame>>

\* del self.access_times[key]
Remove83(t) ==
    /\ At(t, "remove_83")
    /\ IF DictHas(access_times, threads[t].target)
       THEN access_times' = DictDel(access_times, threads[t].target) /\ AfterRemove(t)
       ELSE access_times' = access_times /\ Leaves(t, "KeyError", None)
    /\ UNCHANGED <<cache, overlapped, stepFrame>>

\* if len(self.cache) >= self.max_size: self._evict_oldest()
Set66(t) ==
    /\ At(t, "set_66")
    /\ Goto(t, IF Len(cache) >= max_size THEN "evict_87" ELSE "set_69")
    /\ UNCHANGED <<cache, access_times, overlapped, stepFrame>>

\* as Evict87, without the test for an empty access_times
Evict87_unguarded(t) ==
    /\ At(t, "evict_87")
    /\ Goto(t, "evict_90")
    /\ UNCHANGED <<cache, access_times, overlapped, stepFrame>>

\* if not self.access_times: return
Evict87(t) ==
    /\ At(t, "evict_87")
    /\ Goto(t, IF access_times = EmptyDict THEN "set_69" ELSE "evict_90")
    /\ UNCHANGED <<cache, access_times, overlapped, stepFrame>>

\* min(self.access_times.keys(), key=...) starts to iterate
Evict90(t) ==
    /\ At(t, "evict_90")
    /\ IF access_times = EmptyDict THEN Leaves(t, "ValueError", None)
       ELSE threads' = [threads EXCEPT ![t].at = "evict_90_end",
                                       ![t].size = Len(access_times)]
    /\ UNCHANGED <<cache, access_times, overlapped, stepFrame>>

\* min(...) has called the key function on every key: a dictionary that
\* changed size meanwhile raises RuntimeError from the iterator, or KeyError
\* from the key function's access_times[k]
Evict90End(t) ==
    /\ At(t, "evict_90_end")
    /\ IF Len(access_times) = threads[t].size
       THEN threads' = [threads EXCEPT ![t].at = "remove_80",
                                       ![t].target = oldest_key(Self),
                                       ![t].size = 0]
       ELSE \E error \in {"RuntimeError", "KeyError"} : Leaves(t, error, None)
    /\ UNCHANGED <<cache, access_times, overlapped, stepFrame>>

\* self.cache[key] = {'data': data, 'timestamp': time.time(), ...}
Set69(t) ==
    /\ At(t, "set_69")
    /\ cache' = DictPut(cache, threads[t].key,
                        [data |-> threads[t].data[1], timestamp |-> now,
                         sql |-> threads[t].sql, schema |-> None])
    /\ Goto(t, "set_75")
    /\ UNCHANGED <<access_times, overlapped, stepFrame>>

\* self.access_times[key] = time.time()
Set75(t) ==
    /\ At(t, "set_75")
    /\ access_times' = DictPut(access_times, threads[t].key, now)
    /\ Leaves(t, "return", None)
    /\ UNCHANGED <<cache, overlapped, stepFrame>>

\* self.cache.clear()
Clear95(t) ==
    /\ At(t, "clear_95")
    /\ cache' = EmptyDict
    /\ Goto(t, "clear_96")
    /\ UNCHANGED <<access_times, overlapped, stepFrame>>

Clear96_keeping(t) ==
    /\ At(t, "clear_96")
    /\ Leaves(t, "return", None)
    /\ UNCHANGED <<cache, access_times, overlapped, stepFrame>>

\* self.access_times.clear()
Clear96(t) ==
    /\ At(t, "clear_96")
    /\ access_times' = EmptyDict
    /\ Leaves(t, "return", None)
    /\ UNCHANGED <<cache, overlapped, stepFrame>>

\* 'cache_size': len(self.cache)
Stats101(t) ==
    /\ At(t, "stats_101")
    /\ threads' = [threads EXCEPT ![t].at = "stats_105", ![t].size = Len(cache)]
    /\ UNCHANGED <<cache, access_times, overlapped, stepFrame>>

\* 'entries': list(self.cache.keys())
Stats105(t) ==
    /\ At(t, "stats_105")
    /\ Leaves(t, "return",
              Some([cache_size |-> threads[t].size, max_size |-> max_size, ttl |-> ttl,
                    entries |-> [i \in DOMAIN cache |-> cache[i][1]]]))
    /\ UNCHANGED <<cache, access_times, overlapped, stepFrame>>

\* time passes, also while a caller is inside a method
Elapse ==
    /\ now < MaxTime
    /\ now' = now + 1
    /\ UNCHANGED <<cacheVars, security_mode, validatorVars, ret, callerVars>>

\* caller t calls a method or takes the next step of the one it is in
Runs(t) ==
    \/ \E sql \in CacheSqls : CallGet(t, sql)
    \/ \E sql \in CacheSqls : CallSet(t, sql, <<"row">>)
    \/ CallClear(t)
    \/ CallGetStats(t)
    \/ Get48(t) \/ Get52(t) \/ Get56(t) \/ Get59(t)
    \/ Remove80(t) \/ Remove81(t) \/ Remove82(t) \/ Remove83(t)
    \/ Set66(t) \/ Evict87(t) \/ Evict90(t) \/ Evict90End(t)
    \/ Set69(t) \/ Set75(t)
    \/ Clear95(t) \/ Clear96(t)
    \/ Stats101(t) \/ Stats105(t)

\* no capacity or one entry, so that two statements overflow the cache
InitSteps ==
    \E a_max_size \in {0, 1} :
        /\ Constructed(a_max_size, MaxTtl, READONLY)
        /\ ret = NoCall

\* a single caller
NextSerial == Runs(1) \/ Elapse

SpecSerial == InitSteps /\ [][NextSerial]_vars

Failures == {"KeyError", "ValueError", "RuntimeError"}

-----------------------------------------------------------------------------
(* The cache key: statements and namespaces whose texts join to the same   *)
(* key data.                                                               *)

SelectFromT == <<"S","E","L","E","C","T"," ","1"," ","F","R","O","M"," ","T">>

SelectFromTHr == <<"S","E","L","E","C","T"," ","1"," ","F","R","O","M"," ","T","_","H","R">>

SelectFromTLower == <<"s","e","l","e","c","t"," ","1"," ","f","r","o","m"," ","t">>

KeySqls == {SelectFromT, SelectFromTHr, SelectFromTLower}

\* no namespace, the empty one, and one whose name ends with an underscore
KeySchemas == {None, Some(<<>>), Some(<<"H","R","_">>)}

InitKey ==
    /\ Constructed(MaxCapacity, MaxTtl, READONLY)
    /\ ret = NoCall

NextKey ==
    \/ \E sql \in KeySqls, schema \in KeySchemas : Get(sql, schema)
    \/ \E sql \in KeySqls, schema \in KeySchemas : Set(sql, <<"row">>, schema)
    \/ Tick

SpecKey == InitKey /\ [][NextKey]_vars

\* an absent namespace counts as the empty one
Namespace(schema) == IF schema = None THEN <<>> ELSE schema[1]

\* C24: a get returns an entry only if the entry was stored by a set with
\* exactly the same statement text and the same namespace (an absent
\* namespace counting as the empty one): no two different pairs of statement
\* and namespace share an entry.
C24_KeySeparatesRequests ==
    [][(GetStep /\ ret'.out = "data") =>
           /\ DictGet(cache, CalledKey).sql = ret'.sql
           /\ Namespace(DictGet(cache, CalledKey).schema) = Namespace(ret'.schema)]_vars

-----------------------------------------------------------------------------
(* Bound parameters.  get_all_tables binds the owner to WHERE OWNER = ? and *)
(* selects OWNER AS schemaname: every row the database returns names the    *)
(* owner that was bound.                                                    *)

\* what the database answers to the statement of get_all_tables with owner
\* bound: no table, a table of that owner, or an error
TablesOf(owner) ==
    {DbAnswer("ok", <<>>, 0), DbAnswer("ok", <<owner>>, 0),
     DbAnswer("execute_error", <<>>, 0)}

NextTables ==
    \/ \E schema \in OpSchemas, db1 \in SchemaAnswers :
           \E db2 \in TablesOf(SchemaOf(schema)) : GetAllTables(schema, db1, db2)
    \/ Clear
    \/ Tick

SpecTables == InitOps /\ [][NextTables]_vars

\* C25: a call is never answered with the rows of a call that bound other
\* parameters to the same statement text: the tables get_all_tables returns
\* are tables of the owner it was asked for.
C25_RowsOfSameParameters ==
    (ret.op = "get_all_tables" /\ ret.out = "return") =>
        \A i \in DOMAIN ret.value[1] : ret.value[1][i] = SchemaOf(ret.schema)

-----------------------------------------------------------------------------
\* C26: under LIMITED_WRITE and FULL_ACCESS an accepted execute_query whose
\* text contains a write or dangerous keyword goes to the database on every
\* call: what it returns was not taken from the cache, and its result is not
\* in the cache afterwards.
C26_WritesNeverCached ==
    (/\ ret.op = "execute_query"
     /\ ret.mode \in {LIMITED_WRITE, FULL_ACCESS}
     /\ ret.out = "return"
     /\ HasKeywordOf(ret.sql, WriteSet \cup DangerousSet)) =>
        /\ ret.db
        /\ ~ DictHas(cache, _generate_key(ret.sql, None))

-----------------------------------------------------------------------------
\* the dangerous clauses as pairs of words: the second follows the first,
\* or, for UPDATE ... SET, follows the target named after it
ClauseWords ==
    {<<K_DROP, K_TABLE, 1>>, <<K_TRUNCATE, K_TABLE, 1>>, <<K_DELETE, K_FROM, 1>>,
     <<K_INSERT, K_INTO, 1>>, <<K_UPDATE, K_SET, 2>>, <<K_CREATE, K_TABLE, 1>>,
     <<K_ALTER, K_TABLE, 1>>}

\* a clause occurs in the text as whitespace-separated words, in any case
HasClauseWords(sql) ==
    LET words == split(upper(sql))
    IN  \E clause \in ClauseWords, i \in DOMAIN words :
            /\ i + clause[3] \in DOMAIN words
            /\ words[i] = clause[1]
            /\ words[i + clause[3]] = clause[2]

\* C27: under READONLY a SELECT statement is rejected whenever a dangerous
\* clause occurs in its text, in any letter case and with any whitespace
\* between the clause words; an UPDATE <target> SET phrase is rejected
\* whatever the form of the target.
C27_EmbeddedClauseRejected ==
    (/\ Validated
     /\ ret.mode = READONLY
     /\ LeadingKeyword(ret.sql) = K_SELECT
     /\ HasClauseWords(ret.sql)) => ret.out = "False"

-----------------------------------------------------------------------------
\* the entries and the access times of every key but the one given are after
\* the step what they were before
OthersKept(key) ==
    /\ DictKeys(cache') \ {key} = DictKeys(cache) \ {key}
    /\ DictKeys(access_times') \ {key} = DictKeys(access_times) \ {key}
    /\ \A k \in DictKeys(cache) \ {key} : DictGet(cache', k) = DictGet(cache, k)
    /\ \A k \in DictKeys(access_times) \ {key} :
           DictGet(access_times', k) = DictGet(access_times, k)
    /\ UNCHANGED <<max_size, ttl>>

\* C28: a get touches only the key asked for: on an absent key it changes
\* nothing; on a hit it changes the access time of that key and nothing else
\* (the entry with its data and timestamp, and every other entry, stay); on an
\* expired key it removes that key from cache and access_times and changes
\* no other entry.
C28_GetTouchesOnlyItsKey ==
    [][GetStep =>
           /\ OthersKept(CalledKey)
           /\ Absent(CalledKey) => UNCHANGED cacheVars
           /\ (~ Absent(CalledKey) /\ ~ Expired(CalledKey)) =>
                  /\ cache' = cache
                  /\ DictHas(access_times', CalledKey)
                  /\ DictGet(access_times', CalledKey) = now
           /\ (~ Absent(CalledKey) /\ Expired(CalledKey)) =>
                  /\ ~ DictHas(cache', CalledKey)
                  /\ ~ DictHas(access_times', CalledKey)]_vars

\* a get has returned None in a cache built for two entries, and the entry
\* that is left is itself expired and still there
C28_Witness ==
    /\ ret.op = "get"
    /\ ret.out = "None"
    /\ max_size = 2
    /\ Len(cache) = 1
    /\ now - cache[1][2].timestamp > ttl
    /\ cache[1][1] # _generate_key(ret.sql, ret.schema)
    /\ DictHas(access_times, cache[1][1])

-----------------------------------------------------------------------------
\* C29: a set on a key that is already cached refreshes that entry (the data
\* replaced by the data given, timestamp and access time set to the current
\* time) and changes no other entry, however full the cache is.
C29_RefreshKeepsOthers ==
    [][(SetStep /\ ~ Absent(CalledKey)) =>
           /\ OthersKept(CalledKey)
           /\ DictHas(cache', CalledKey)
           /\ DictGet(cache', CalledKey).data = ret'.value[1]
           /\ DictGet(cache', CalledKey).timestamp = now
           /\ DictHas(access_times', CalledKey)
           /\ DictGet(access_times', CalledKey) = now]_vars

-----------------------------------------------------------------------------
(* Two callers on one QueryCache without a lock: their dictionary steps    *)
(* interleave in any order.                                                *)

\* caller t calls get, set or clear, or takes the next step of its call
Uses(t) ==
    \/ \E sql \in CacheSqls : CallGet(t, sql)
    \/ \E sql \in CacheSqls : CallSet(t, sql, <<"row">>)
    \/ CallClear(t)
    \/ Get48(t) \/ Get52(t) \/ Get56(t) \/ Get59(t)
    \/ Remove80(t) \/ Remove81(t) \/ Remove82(t) \/ Remove83(t)
    \/ Set66(t) \/ Evict87(t) \/ Evict90(t) \/ Evict90End(t)
    \/ Set69(t) \/ Set75(t)
    \/ Clear95(t) \/ Clear96(t)

\* a cache of one entry
InitThreads ==
    /\ Constructed(1, MaxTtl, READONLY)
    /\ ret = NoCall

NextThreads == (\E t \in Threads : Uses(t)) \/ Elapse

SpecThreads == InitThreads /\ [][NextThreads]_vars

Quiescent == \A t \in Threads : At(t, "idle")

\* between calls the two dictionaries have the same keys and the cache holds
\* no more than its capacity (a cache of capacity 0 holds one entry)
Consistent ==
    /\ DictKeys(cache) = DictKeys(access_times)
    /\ Len(cache) <= (IF max_size = 0 THEN 1 ELSE max_size)

\* C30 (as stated): with two callers interleaved at single dictionary reads
\* and writes no operation fails, and whenever no operation is in progress
\* the key sets of cache and access_times are equal and the size is at most
\* the capacity.
C30_InterleavedSafe ==
    /\ \A t \in Threads : threads[t].out \notin Failures
    /\ Quiescent => (DictKeys(cache) = DictKeys(access_times) /\ Len(cache) <= max_size)

\* C30 (amended): as long as no call has started while another call was in
\* progress, no operation fails, and whenever no operation is in progress
\* the key sets of cache and access_times are equal and the cache holds at
\* most its capacity (one entry when the capacity is 0).
C30_SafeWithoutOverlap ==
    ~ overlapped =>
        /\ \A t \in Threads : threads[t].out \notin Failures
        /\ Quiescent => Consistent

\* both callers have used the cache, one after the other: caller 2 stored a
\* statement and caller 1 then read it
C30_Witness ==
    /\ ~ overlapped
    /\ Quiescent
    /\ threads[2].op = "set" /\ threads[2].out = "return"
    /\ threads[1].op = "get" /\ threads[1].out = "return"
    /\ threads[1].value # None
    /\ threads[1].sql = threads[2].sql
    /\ cache # EmptyDict

====
